---- MODULE Spec2Model ----
(***************************************************************************)
(* Verification model of the X Outreach Agent core:                        *)
(*   - the AgentMail webhook adapter (signature check, Redis dedupe gate,  *)
(*     OpenClaw dispatch),                                                  *)
(*   - the reply parser parseReplyText,                                    *)
(*   - the negotiation ladder decide_next_logic,                           *)
(*   - the entrypoints that read and write the lead store.                 *)
(***************************************************************************)
EXTENDS Integers, Sequences, FiniteSets, TLC

(***************************************************************************)
(* Bounds of the model.                                                    *)
(***************************************************************************)
NumRuns == 2          \* agentmail_ingest_event calls in progress at once
NumHandlers == 2      \* webhook requests that can be in flight at once
MaxDeliveries == 2    \* webhook deliveries accepted in one behaviour

MaxMenuLen == 2       \* offers in a campaign's offerMenu

Procs == 1..NumHandlers

VARIABLES
    redisConfigured,  \* redis !== null (REDIS_URL was set at start-up)
    store,            \* keys currently held by Redis
    h,                \* per request handler: position and request state
    lastResp,         \* the response written last, with the request it answers
    metrics,          \* the metrics object
    responses,        \* history: number of responses written
    wakeCalls,        \* history: fetches to /hooks/agent issued, per dedupe key
    agentRuns,        \* history: successful wakes (downstream runs), per key
    redisErrored,     \* history: some Redis command has thrown
    expired           \* history: keys Redis dropped after their TTL

webhookVars == <<redisConfigured, store, h, lastResp, metrics, responses,
                 wakeCalls, agentRuns, redisErrored, expired>>

VARIABLES
    stage,            \* negotiation entrypoints: "idle", "parsed" or "decided"
    entry,            \* the entrypoint that ran: decide_next or
                      \* agentmail_ingest_event
    msgText,          \* message.text of the event being ingested
    parsedReply,      \* the ParsedReply
    activeCampaign,   \* the campaign read for the decision
    decision          \* the NegotiationDecision returned

negVars == <<stage, entry, msgText, parsedReply, activeCampaign, decision>>

VARIABLES
    leads,            \* ctx state key "leads": the stored Lead array
    configured,       \* ctx state keys campaign, x, agentmail that hold a value
    dailyDmCount,     \* ctx state key "dailyDmCount"
    lastDmDate        \* ctx state key "lastDmDate"

ctxVars == <<leads, configured, dailyDmCount, lastDmDate>>

VARIABLES
    message,          \* from and thread_id of the message being ingested
    leadsRead,        \* the entrypoint's local copy of the Lead array
    matched,          \* position in leadsRead of the lead found, 0 if none
    resultLead,       \* the lead the entrypoint returns
    leadWrites,       \* history: setState("leads") calls of the running entrypoint
    sendResult,       \* what agentmail_send_reply returned
    outbox,           \* history: replies handed to AgentMail replyToThread
    outreachResult    \* what send_outreach / ingest_replies_x returned

runVars == <<message, leadsRead, matched, resultLead, leadWrites, sendResult,
             outbox, outreachResult>>

VARIABLES
    runs,             \* agentmail_ingest_event calls in progress at once: the
                      \* position and the locals of each
    lastWriter        \* history: the call whose setState("leads") came last

raceVars == <<runs, lastWriter>>

VARIABLES
    wire              \* a webhook body from its signer to the handler: the
                      \* bytes signed, the bytes received, the Svix headers
                      \* and the handler's answer

wireVars == <<wire>>

VARIABLES
    dmsSent           \* history: xClient.sendDM calls that went through, per
                      \* calendar day
VARIABLES
    returned          \* history: the DM events ingest_replies_x has returned
                      \* as replies, as pairs <<lead index, createdAt>>

sentVars == <<dmsSent, returned>>

VARIABLES
    boot              \* the x_outreach_bootstrap call in progress: its position,
                      \* the errors collected, the state keys it wrote and
                      \* what it returned

bootVars == <<boot>>

VARIABLES
    plan              \* the plan_outreach call in progress: its input leads,
                      \* the outreach settings read and what it returned

planVars == <<plan>>

(***************************************************************************)
(* Inbound requests.  A request carries a raw body, the three Svix         *)
(* headers and a signature that verifies or not; the body encodes an       *)
(* AgentMail event.  Event ids are stable per event, so each id has one    *)
(* event_type; the event with the empty id exercises the fallback key.     *)
(***************************************************************************)
Events ==
    { [event_id |-> "evt_1", event_type |-> "message.received"],
      [event_id |-> "evt_2", event_type |-> "message.sent"],
      [event_id |-> "",      event_type |-> "message.received"] }

SvixHeaderNames == {"svix-id", "svix-timestamp", "svix-signature"}

NoEvent == [event_id |-> "", event_type |-> ""]

\* An empty body carries no event, and a signature can only verify when the
\* svix-id, svix-timestamp and svix-signature it is computed from are present.
Requests ==
    { r \in [ bodyEmpty : BOOLEAN,
              missing   : {"none"} \cup SvixHeaderNames,
              sigValid  : BOOLEAN,
              event     : Events \cup {NoEvent} ] :
        /\ r.bodyEmpty <=> (r.event = NoEvent)
        /\ r.missing # "none" => ~r.sigValid }

NoReq == [bodyEmpty |-> TRUE, missing |-> "none", sigValid |-> FALSE,
          event |-> NoEvent]

\* the values Date.now() takes
ClockValues == {0, 1}

FallbackIds == { "fallback-" \o ToString(t) : t \in ClockValues }

EventIds == { e.event_id : e \in Events } \ {""}

Keys == { "agentmail:event:" \o id : id \in EventIds \cup FallbackIds }

\* Date.now() is read only when event.event_id is falsy
Timestamps(r) == IF r.event.event_id = "" THEN ClockValues ELSE {0}

\* const eventId = event.event_id || `fallback-${Date.now()}`
EventIdOrFallback(event, t) ==
    IF event.event_id # "" THEN event.event_id
                           ELSE "fallback-" \o ToString(t)

\* const key = `agentmail:event:${eventId}`
DedupeKey(eventId) == "agentmail:event:" \o eventId

\* extractSvixHeaders + the three-header test of the handler
HeadersMissing(r) == r.missing # "none"

\* variant: verification that accepts every signature
verifyWebhook_skip(r) == TRUE

\* verifyWebhook: wh.verify throws unless the signature matches
verifyWebhook(r) == r.sigValid

\* variant: no event-type filter
IsMessageReceived_any(event) == TRUE

\* event.event_type !== "message.received"
IsMessageReceived(event) == event.event_type = "message.received"

Idle == [pc |-> "idle", req |-> NoReq, key |-> "", status |-> 0,
         responses |-> 0, trace |-> << >>]

EmptyMetrics ==
    [webhooksReceived |-> 0, webhooksVerified |-> 0, webhooksFailed |-> 0,
     webhooksDeduplicated |-> 0, openclawWakeSuccess |-> 0,
     openclawWakeFailed |-> 0]

Bump(m, field) == [m EXCEPT ![field] = @ + 1]

\* res.status(code)...: the request is answered and the handler returns
Respond(hr, code, step) ==
    [hr EXCEPT !.pc = "done", !.status = code, !.responses = @ + 1,
               !.trace = Append(@, step)]

\* variant: wakeOpenClaw called without await, 204 written at once
StartWake_noawait(hr) == Respond(hr, 204, "wake_call")

\* await wakeOpenClaw(event): the fetch is issued and the handler suspends
StartWake(hr) ==
    [hr EXCEPT !.pc = "fetch", !.trace = Append(@, "wake_call")]

\* steps 5-6 of the handler, run once isDuplicate has returned false
AfterDedupe(hr) ==
    IF ~IsMessageReceived(hr.req.event)
    THEN Respond(hr, 204, "ignored")
    ELSE StartWake(hr)

\* variant: a Redis failure propagates to the handler's catch block
OnRedisError_rethrow(hr) == Respond(hr, 500, "redis_failed")

\* the catch block of isDuplicate: log and report "not a duplicate"
OnRedisError(hr) == AfterDedupe(hr)

\* variant: a failed wake is swallowed and acknowledged
AfterWake_swallow(hr, outcome) ==
    IF outcome = "ok" THEN Respond(hr, 204, "wake_ok")
                      ELSE Respond(hr, 204, "wake_failed")

\* the handler's answer once the awaited wakeOpenClaw has settled
AfterWake(hr, outcome) ==
    IF outcome = "ok" THEN Respond(hr, 204, "wake_ok")
                      ELSE Respond(hr, 500, "wake_failed")

\* isDuplicate up to its first await: if (!redis) return false
isDuplicateStart(hv) ==
    IF redisConfigured
    THEN [hv EXCEPT !.pc = "redis_get"]
    ELSE AfterDedupe([hv EXCEPT !.trace = Append(@, "no_redis")])

\* isDuplicate after redis.get: if (exists) return true, else redis.set
OnGetResult(hr, exists) ==
    IF exists
    THEN Respond([hr EXCEPT !.trace = Append(@, "get_hit")], 204, "duplicate")
    ELSE [hr EXCEPT !.pc = "redis_set", !.trace = Append(@, "get_miss")]

\* the history of fetches issued, kept beside the handler step that issues one
CountWake(hr2) ==
    IF hr2.pc = "fetch"
    THEN [wakeCalls EXCEPT ![hr2.key] = @ + 1]
    ELSE wakeCalls

WebhookInit ==
    /\ redisConfigured \in BOOLEAN
    /\ store = {}
    /\ h = [p \in Procs |-> Idle]
    /\ lastResp = Idle
    /\ metrics = EmptyMetrics
    /\ responses = 0
    /\ wakeCalls = [k \in Keys |-> 0]
    /\ agentRuns = [k \in Keys |-> 0]
    /\ redisErrored = FALSE
    /\ expired = {}

\* The handler of request p moves to hn: either it suspends on an awaited
\* call, or it has written its response and returned.
Commit(p, hn) ==
    /\ wakeCalls' = CountWake(hn)
    /\ IF hn.pc = "done"
       THEN /\ h' = [h EXCEPT ![p] = Idle]
            /\ lastResp' = hn
            /\ responses' = responses + hn.responses
       ELSE /\ h' = [h EXCEPT ![p] = hn]
            /\ UNCHANGED <<lastResp, responses>>

(***************************************************************************)
(* POST /webhooks/agentmail, up to its first suspension point.  t is the   *)
(* value Date.now() returns.                                               *)
(***************************************************************************)
Receive(p, r, t) ==
    /\ h[p].pc = "idle"
    /\ metrics.webhooksReceived < MaxDeliveries
    /\ LET m1 == Bump(metrics, "webhooksReceived")
           hr == [h[p] EXCEPT !.req = r]
       IN
       IF r.bodyEmpty
       THEN /\ Commit(p, Respond(hr, 400, "empty_body"))
            /\ metrics' = Bump(m1, "webhooksFailed")
       ELSE IF HeadersMissing(r)
       THEN /\ Commit(p, Respond(hr, 400, "missing_headers"))
            /\ metrics' = Bump(m1, "webhooksFailed")
       ELSE IF ~verifyWebhook(r)
       THEN /\ Commit(p, Respond(hr, 401, "bad_signature"))
            /\ metrics' = Bump(m1, "webhooksFailed")
       ELSE LET hv == [hr EXCEPT
                         !.key = DedupeKey(EventIdOrFallback(r.event, t)),
                         !.trace = Append(@, "verified")]
            IN /\ Commit(p, isDuplicateStart(hv))
               /\ metrics' = Bump(m1, "webhooksVerified")
    /\ UNCHANGED <<redisConfigured, store, agentRuns, redisErrored, expired>>

(***************************************************************************)
(* isDuplicate: await redis.get(key) settles.                              *)
(***************************************************************************)
GetReturn(p, ok) ==
    /\ h[p].pc = "redis_get"
    /\ LET hr == h[p]
       IN /\ Commit(p, IF ~ok
                       THEN OnRedisError([hr EXCEPT
                                            !.trace = Append(@, "get_err")])
                       ELSE OnGetResult(hr, hr.key \in store))
          /\ metrics' = IF ok /\ hr.key \in store
                        THEN Bump(metrics, "webhooksDeduplicated")
                        ELSE metrics
          /\ redisErrored' = (redisErrored \/ ~ok)
    /\ UNCHANGED <<redisConfigured, store, agentRuns, expired>>

(***************************************************************************)
(* isDuplicate: await redis.set(key, "1", "EX", dedupeTtl) settles.        *)
(***************************************************************************)
SetReturn(p, ok) ==
    /\ h[p].pc = "redis_set"
    /\ LET hr == h[p]
       IN /\ Commit(p, IF ok
                       THEN AfterDedupe([hr EXCEPT
                                           !.trace = Append(@, "set_ok")])
                       ELSE OnRedisError([hr EXCEPT
                                            !.trace = Append(@, "set_err")]))
          /\ store' = IF ok THEN store \cup {hr.key} ELSE store
          /\ redisErrored' = (redisErrored \/ ~ok)
    /\ UNCHANGED <<redisConfigured, metrics, agentRuns, expired>>

(***************************************************************************)
(* wakeOpenClaw: the awaited fetch settles.  "ok" is a 2xx answer, after   *)
(* which the woken agent runs its task for the event; "not_ok" is any      *)
(* other status; "throw" is a rejected fetch (network error).              *)
(***************************************************************************)
FetchOutcomes == {"ok", "not_ok", "throw"}

FetchReturn(p, outcome) ==
    /\ h[p].pc = "fetch"
    /\ LET hr == h[p]
       IN /\ Commit(p, AfterWake(hr, outcome))
          /\ metrics' =
               IF outcome = "ok" THEN Bump(metrics, "openclawWakeSuccess")
               ELSE IF outcome = "not_ok"
               THEN Bump(Bump(metrics, "openclawWakeFailed"), "webhooksFailed")
               ELSE Bump(metrics, "webhooksFailed")
          /\ agentRuns' = IF outcome = "ok"
                          THEN [agentRuns EXCEPT ![hr.key] = @ + 1]
                          ELSE agentRuns
    /\ UNCHANGED <<redisConfigured, store, redisErrored, expired>>

\* Redis drops a key whose TTL (config.dedupeTtl) has elapsed
Expire(k) ==
    /\ k \in store
    /\ store' = store \ {k}
    /\ expired' = expired \cup {k}
    /\ UNCHANGED <<redisConfigured, h, lastResp, metrics, responses,
                   wakeCalls, agentRuns, redisErrored>>

vars == <<webhookVars, negVars, ctxVars, runVars, raceVars, wireVars,
          sentVars, bootVars, planVars>>

WebhookNext ==
    \/ \E p \in Procs, r \in Requests :
          \E t \in Timestamps(r) : Receive(p, r, t)
    \/ \E p \in Procs, ok \in BOOLEAN : GetReturn(p, ok)
    \/ \E p \in Procs, ok \in BOOLEAN : SetReturn(p, ok)
    \/ \E p \in Procs, o \in FetchOutcomes : FetchReturn(p, o)
    \/ \E k \in Keys : Expire(k)

(***************************************************************************)
(* Strings.  JavaScript string operations used by parseReplyText, on TLA+   *)
(* strings (1-based).                                                       *)
(***************************************************************************)
Undefined == 0 - 1            \* an absent number (undefined)
NoText == "<undefined>"       \* an absent string (undefined)

CharAt(s, i) == IF i >= 1 /\ i <= Len(s) THEN SubSeq(s, i, i) ELSE ""

UpperChars == "ABCDEFGHIJKLMNOPQRSTUVWXYZ"
LowerChars == "abcdefghijklmnopqrstuvwxyz"

\* the lower-case letter of each upper-case letter
LowerOf ==
    [ c \in {CharAt(UpperChars, k) : k \in 1..Len(UpperChars)} |->
        CharAt(LowerChars,
               CHOOSE k \in 1..Len(UpperChars) : CharAt(UpperChars, k) = c) ]

LowerChar(c) == IF c \in DOMAIN LowerOf THEN LowerOf[c] ELSE c

\* String.prototype.toLowerCase
RECURSIVE toLowerCase(_)
toLowerCase(s) ==
    IF s = "" THEN ""
    ELSE LowerChar(SubSeq(s, 1, 1)) \o toLowerCase(SubSeq(s, 2, Len(s)))

\* String.prototype.includes
includes(s, sub) ==
    \E str \in {s} :
        \E i \in 1..(Len(str) - Len(sub) + 1) :
            SubSeq(str, i, i + Len(sub) - 1) = sub

\* sub occurs in s at index i
StartsAt(s, i, sub) ==
    /\ i >= 1
    /\ i + Len(sub) - 1 <= Len(s)
    /\ SubSeq(s, i, i + Len(sub) - 1) = sub

\* sub, given in lower case, occurs in s at index i whatever the case of s
\* (the i flag of a regular expression)
StartsAtNoCase(s, i, sub) ==
    /\ i >= 1
    /\ i + Len(sub) - 1 <= Len(s)
    /\ StartsAt(toLowerCase(SubSeq(s, i, i + Len(sub) - 1)), 1, sub)

DigitChars == "0123456789"

\* \d
IsDigit(c) == c # "" /\ includes(DigitChars, c)

DigitVal(c) == (CHOOSE k \in 1..Len(DigitChars) : CharAt(DigitChars, k) = c) - 1

\* \s
IsSpace(c) == c \in {" ", "\t", "\n", "\r"}

\* \s* from index i: the index of the first character that is not a space
RECURSIVE SkipSpaces(_, _)
SkipSpaces(s, i) == IF IsSpace(CharAt(s, i)) THEN SkipSpaces(s, i + 1) ELSE i

\* \d{n} at index i
DigitsAt(s, i, n) == \A k \in 0..(n - 1) : IsDigit(CharAt(s, i + k))

\* \d+ from index i: the index after the run of digits
RECURSIVE SkipDigits(_, _)
SkipDigits(s, i) == IF IsDigit(CharAt(s, i)) THEN SkipDigits(s, i + 1) ELSE i

\* the digits of str read as a decimal integer, commas removed
RECURSIVE ParseDigits(_, _)
ParseDigits(str, acc) ==
    IF str = "" THEN acc
    ELSE LET c == SubSeq(str, 1, 1)
             rest == SubSeq(str, 2, Len(str))
         IN IF IsDigit(c) THEN ParseDigits(rest, acc * 10 + DigitVal(c))
                          ELSE ParseDigits(rest, acc)

(***************************************************************************)
(* parseReplyText.  Amounts of money are integers counted in cents.        *)
(***************************************************************************)
\* (?:,?\d{3})* from index p, greedy: the index after the last group
RECURSIVE GroupsEnd(_, _)
GroupsEnd(s, p) ==
    IF CharAt(s, p) = "," /\ DigitsAt(s, p + 1, 3) THEN GroupsEnd(s, p + 4)
    ELSE IF DigitsAt(s, p, 3) THEN GroupsEnd(s, p + 3)
    ELSE p

\* (?:\.\d{2})? from index p
FractionEnd(s, p) ==
    IF CharAt(s, p) = "." /\ DigitsAt(s, p + 1, 2) THEN p + 3 ELSE p

\* /\$\s*(\d{1,3}(?:,?\d{3})*(?:\.\d{2})?)/ matches with its "$" at index i
DollarMatchAt(s, i) ==
    CharAt(s, i) = "$" /\ IsDigit(CharAt(s, SkipSpaces(s, i + 1)))

\* parseFloat(rateMatch[1].replace(/,/g, "")) for the match at index i
DollarAmount(s, i) ==
    LET g  == SkipSpaces(s, i + 1)
        n1 == IF DigitsAt(s, g, 3) THEN 3 ELSE IF DigitsAt(s, g, 2) THEN 2 ELSE 1
        e1 == GroupsEnd(s, g + n1)
        e2 == FractionEnd(s, e1)
    IN ParseDigits(SubSeq(s, g, e1 - 1), 0) * 100
         + (IF e2 > e1 THEN ParseDigits(SubSeq(s, e1 + 1, e2 - 1), 0) ELSE 0)

CurrencyWords == {"usd", "dollar", "buck"}

\* /(\d{3,5})\s*(?:usd|dollars?|bucks?)/i matches n digits from index i
NumMatchAt(s, i, n) ==
    /\ DigitsAt(s, i, n)
    /\ \E w \in CurrencyWords :
          StartsAtNoCase(s, SkipSpaces(s, i + n), w)

\* the rate extraction of parseReplyText
ExtractRate(text) ==
    LET dollars == {i \in 1..Len(text) : DollarMatchAt(text, i)}
        nums == {i \in 1..Len(text) : \E n \in 3..5 : NumMatchAt(text, i, n)}
    IN IF dollars # {}
       THEN DollarAmount(text, CHOOSE i \in dollars : \A j \in dollars : i <= j)
       ELSE IF nums # {}
       THEN LET i == CHOOSE a \in nums : \A b \in nums : a <= b
                n == CHOOSE a \in 3..5 :
                        /\ NumMatchAt(text, i, a)
                        /\ \A b \in 3..5 : NumMatchAt(text, i, b) => b <= a
            IN ParseDigits(SubSeq(text, i, i + n - 1), 0) * 100
       ELSE Undefined

TimelineWords == {"within", "by", "deadline", "due"}
TimelineUnits == {"day", "week", "month"}

\* the end (exclusive) of the timeline match whose keyword w starts at index
\* i, or 0 when there is none
TimelineEnd(s, i, w) ==
    LET a == i + Len(w)
        d == SkipSpaces(s, a)
        u == SkipSpaces(s, SkipDigits(s, d))
    IN IF /\ StartsAtNoCase(s, i, w) /\ d > a /\ IsDigit(CharAt(s, d))
          /\ \E t \in TimelineUnits : StartsAtNoCase(s, u, t)
       THEN LET t == CHOOSE t \in TimelineUnits : StartsAtNoCase(s, u, t)
                e == u + Len(t)
            IN IF StartsAtNoCase(s, e, "s") THEN e + 1 ELSE e
       ELSE 0

\* the timeline extraction of parseReplyText
ExtractTimeline(text) ==
    LET hits == {i \in 1..Len(text) :
                    \E w \in TimelineWords : TimelineEnd(text, i, w) > 0}
    IN IF hits = {} THEN NoText
       ELSE LET i == CHOOSE a \in hits : \A b \in hits : a <= b
                w == CHOOSE w \in TimelineWords : TimelineEnd(text, i, w) > 0
            IN SubSeq(text, SkipSpaces(text, i + Len(w)),
                      TimelineEnd(text, i, w) - 1)

IncludesAny(s, subs) == \E str \in {s} : \E sub \in subs : includes(str, sub)

NegativePhrases == {"not interested", "no thanks", "pass", "not looking"}
InterestPhrases == {"sounds good", "interested", "tell me more", "let's chat"}
RatePhrases     == {"my rate", "i charge", "$", "usd", "per post"}
InfoPhrases     == {"what", "how much", "more info", "details"}
AcceptPhrases   == {"deal", "works for me", "accept"}
CounterPhrases  == {"counter", "how about", "instead"}

\* variant: a text that mentions a rate is sends_rate before interest is
\* looked for
DetectIntent_rateFirst(lowerText) ==
    IF IncludesAny(lowerText, NegativePhrases) THEN "not_interested"
    ELSE IF IncludesAny(lowerText, RatePhrases) THEN "sends_rate"
    ELSE IF IncludesAny(lowerText, InterestPhrases) THEN "interested"
    ELSE IF IncludesAny(lowerText, InfoPhrases) THEN "needs_info"
    ELSE IF IncludesAny(lowerText, AcceptPhrases) THEN "accepts"
    ELSE IF IncludesAny(lowerText, CounterPhrases) THEN "counter_offer"
    ELSE "other"

\* the intent detection of parseReplyText: the if / else-if chain
DetectIntent(lowerText) ==
    IF IncludesAny(lowerText, NegativePhrases) THEN "not_interested"
    ELSE IF IncludesAny(lowerText, InterestPhrases) THEN "interested"
    ELSE IF IncludesAny(lowerText, RatePhrases) THEN "sends_rate"
    ELSE IF IncludesAny(lowerText, InfoPhrases) THEN "needs_info"
    ELSE IF IncludesAny(lowerText, AcceptPhrases) THEN "accepts"
    ELSE IF IncludesAny(lowerText, CounterPhrases) THEN "counter_offer"
    ELSE "other"

\* parseReplyText(text), completed with raw as agentmail_ingest_event does;
\* usage is never set by the parser
parseReplyText(text) ==
    LET fields(lowerText) ==
          [ intent |-> DetectIntent(lowerText),
            rateUsd |-> ExtractRate(text),
            asksExclusivity |->
                IncludesAny(lowerText,
                            {"exclusiv", "only work with", "no competitors"}),
            asksWhitelisting |->
                IncludesAny(lowerText,
                            {"whitelist", "paid ads", "ad rights", "boost"}),
            timeline |-> ExtractTimeline(text),
            usage |-> NoText,
            raw |-> text ]
    IN CHOOSE r \in {fields(lowerText) : lowerText \in {toLowerCase(text)}} :
          TRUE

(***************************************************************************)
(* decide_next_logic.  A rationale string is a record of its template and  *)
(* the values interpolated into it; a reply draft likewise.                *)
(***************************************************************************)
\* JavaScript truthiness of an optional number
Truthy(n) == n # Undefined /\ n # 0

NoCounterOffer == [offerKey |-> "", rateUsd |-> Undefined, usage |-> ""]
NoDraft == [kind |-> "", rate |-> Undefined, key |-> ""]

Rationale(msg, a, b, key) == [msg |-> msg, a |-> a, b |-> b, key |-> key]

\* variant: a pass decision is returned without its rationale
Decision_noAudit(action, counterOffer, rationale, replyDraft) ==
    [action |-> action, counterOffer |-> counterOffer,
     rationale |-> IF action = "pass" THEN << >> ELSE rationale,
     replyDraft |-> replyDraft]

Decision(action, counterOffer, rationale, replyDraft) ==
    [action |-> action, counterOffer |-> counterOffer,
     rationale |-> rationale, replyDraft |-> replyDraft]

\* Math.round(maxUsdPerDeal * (1 + aboveMaxPct / 100)), in dollars
RoundedThreshold(guardrails) ==
    (guardrails.maxUsdPerDeal * (100 + guardrails.escalation.aboveMaxPct)
        + 5000) \div 10000

\* variant: the hard-max rule compares against max + aboveMaxPct percent
ExceedsHardMax_soft(reply, guardrails) ==
    /\ Truthy(reply.rateUsd)
    /\ reply.rateUsd * 100
          > guardrails.maxUsdPerDeal * (100 + guardrails.escalation.aboveMaxPct)

\* variant: a rate equal to the ceiling is escalated as well
ExceedsHardMax_geq(reply, guardrails) ==
    Truthy(reply.rateUsd) /\ reply.rateUsd >= guardrails.maxUsdPerDeal

\* reply.rateUsd && reply.rateUsd > guardrails.maxUsdPerDeal
ExceedsHardMax(reply, guardrails) ==
    Truthy(reply.rateUsd) /\ reply.rateUsd > guardrails.maxUsdPerDeal

\* variant: the threshold is the percentage of the ceiling, without the
\* ceiling itself
ExceedsThreshold_fraction(reply, guardrails) ==
    /\ Truthy(reply.rateUsd)
    /\ reply.rateUsd * 100
          > guardrails.maxUsdPerDeal * guardrails.escalation.aboveMaxPct

\* reply.rateUsd > maxUsdPerDeal * (1 + escalation.aboveMaxPct / 100)
ExceedsThreshold(reply, guardrails) ==
    /\ Truthy(reply.rateUsd)
    /\ reply.rateUsd * 100
          > guardrails.maxUsdPerDeal * (100 + guardrails.escalation.aboveMaxPct)

\* offerMenu.find(o => o.baselineUsd && reply.rateUsd <= o.baselineUsd)
MatchingOffers(reply, offerMenu) ==
    {i \in 1..Len(offerMenu) :
        /\ Truthy(offerMenu[i].baselineUsd)
        /\ reply.rateUsd <= offerMenu[i].baselineUsd}

\* variant: the last matching offer of the menu is taken
LastOf(S) == CHOOSE i \in S : \A j \in S : i >= j

\* Array.prototype.find: the first element, in array order, that matches
FirstOf(S) == CHOOSE i \in S : \A j \in S : i <= j

\* offerMenu.reduce((best, current) => ..., offerMenu[0])
RECURSIVE ReduceBest(_, _, _)
ReduceBest(offerMenu, i, best) ==
    IF i > Len(offerMenu) THEN best
    ELSE LET current == offerMenu[i]
         IN ReduceBest(offerMenu, i + 1,
               IF ~Truthy(current.baselineUsd) THEN best
               ELSE IF current.baselineUsd >
                         (IF Truthy(best.baselineUsd) THEN best.baselineUsd
                                                      ELSE 0)
               THEN current
               ELSE best)

BestOffer(offerMenu) == ReduceBest(offerMenu, 1, offerMenu[1])

\* generateInfoReply / generateInterestFollowup quote offerMenu[0]
InfoDraft(campaign) ==
    [kind |-> "info", rate |-> campaign.offerMenu[1].baselineUsd,
     key |-> campaign.offerMenu[1].usage]

InterestDraft(campaign) ==
    [kind |-> "interest", rate |-> campaign.offerMenu[1].baselineUsd,
     key |-> ""]

ClarifyDraft(topic) == [kind |-> "clarify_" \o topic, rate |-> Undefined,
                        key |-> ""]

\* rule 7 and the rules below it
RateAndIntentRules(reply, campaign) ==
    LET guardrails == campaign.guardrails
        offerMenu == campaign.offerMenu
        matching == IF Truthy(reply.rateUsd)
                    THEN MatchingOffers(reply, offerMenu) ELSE {}
    IN
    IF matching # {}
    THEN LET o == offerMenu[FirstOf(matching)]
         IN Decision("accept", NoCounterOffer,
               <<Rationale("within_baseline", reply.rateUsd, o.baselineUsd,
                           o.key)>>,
               [kind |-> "accept", rate |-> reply.rateUsd, key |-> o.key])
    ELSE IF Truthy(reply.rateUsd) /\ reply.rateUsd <= guardrails.maxUsdPerDeal
    THEN LET bestOffer == BestOffer(offerMenu)
         IN Decision("counter",
               [offerKey |-> bestOffer.key, rateUsd |-> bestOffer.baselineUsd,
                usage |-> bestOffer.usage],
               <<Rationale("above_baseline", reply.rateUsd,
                           bestOffer.baselineUsd, "")>>,
               [kind |-> "counter",
                rate |-> IF Truthy(bestOffer.baselineUsd)
                         THEN bestOffer.baselineUsd ELSE 0,
                key |-> bestOffer.key])
    ELSE IF reply.intent = "needs_info"
    THEN Decision("clarify", NoCounterOffer,
               <<Rationale("needs_info", Undefined, Undefined, "")>>,
               InfoDraft(campaign))
    ELSE IF reply.intent = "interested"
    THEN Decision("clarify", NoCounterOffer,
               <<Rationale("interested", Undefined, Undefined, "")>>,
               InterestDraft(campaign))
    ELSE Decision("clarify", NoCounterOffer,
               <<Rationale("unclear", Undefined, Undefined, "")>>,
               ClarifyDraft("general"))

\* variant: the campaign's escalation switches are not consulted
FlagRules_noSwitch(reply, campaign) ==
    IF reply.asksExclusivity
    THEN Decision("escalate", NoCounterOffer,
               <<Rationale("exclusivity", Undefined, Undefined, "")>>, NoDraft)
    ELSE IF reply.asksWhitelisting
    THEN Decision("escalate", NoCounterOffer,
               <<Rationale("whitelisting", Undefined, Undefined, "")>>, NoDraft)
    ELSE IF /\ reply.usage = NoText /\ campaign.guardrails.escalation.unclearUsage
            /\ reply.intent = "sends_rate"
    THEN Decision("clarify", NoCounterOffer,
               <<Rationale("usage_unclear", Undefined, Undefined, "")>>,
               ClarifyDraft("usage"))
    ELSE RateAndIntentRules(reply, campaign)

\* rules 4 to 6 and the rules below them
FlagRules(reply, campaign) ==
    LET escalation == campaign.guardrails.escalation
    IN
    IF reply.asksExclusivity /\ escalation.asksExclusivity
    THEN Decision("escalate", NoCounterOffer,
               <<Rationale("exclusivity", Undefined, Undefined, "")>>, NoDraft)
    ELSE IF reply.asksWhitelisting /\ escalation.asksWhitelisting
    THEN Decision("escalate", NoCounterOffer,
               <<Rationale("whitelisting", Undefined, Undefined, "")>>, NoDraft)
    ELSE IF /\ reply.usage = NoText /\ escalation.unclearUsage
            /\ reply.intent = "sends_rate"
    THEN Decision("clarify", NoCounterOffer,
               <<Rationale("usage_unclear", Undefined, Undefined, "")>>,
               ClarifyDraft("usage"))
    ELSE RateAndIntentRules(reply, campaign)

\* variant: the rate rules are tried before the flag rules
FlagRulesLast(reply, campaign) ==
    IF RateAndIntentRules(reply, campaign).action \in {"accept", "counter"}
    THEN RateAndIntentRules(reply, campaign)
    ELSE FlagRules(reply, campaign)

\* rules 4 onwards, as ordered in decide_next_logic
LowerRules(reply, campaign) == FlagRules(reply, campaign)

\* variant: a rate in the reply is looked at before the intent
decide_next_logic_rateFirst(reply, campaign, lead) ==
    LET guardrails == campaign.guardrails
    IN
    IF ExceedsHardMax(reply, guardrails)
    THEN Decision("escalate", NoCounterOffer,
               <<Rationale("exceeds_max", reply.rateUsd,
                           guardrails.maxUsdPerDeal, "")>>, NoDraft)
    ELSE IF reply.intent = "not_interested"
    THEN Decision("pass", NoCounterOffer,
               <<Rationale("declined", Undefined, Undefined, "")>>, NoDraft)
    ELSE LowerRules(reply, campaign)

\* variant: the stored status of the lead is looked up, and a lead that is
\* stored as closed is passed on
decide_next_logic_stored(reply, campaign, lead) ==
    LET guardrails == campaign.guardrails
    IN
    IF \E i \in 1..Len(leads) :
          /\ leads[i].xUserId = lead.xUserId
          /\ leads[i].status \in {"won", "lost", "escalated"}
    THEN Decision("pass", NoCounterOffer,
               <<Rationale("closed", Undefined, Undefined, "")>>, NoDraft)
    ELSE IF reply.intent = "not_interested"
    THEN Decision("pass", NoCounterOffer,
               <<Rationale("declined", Undefined, Undefined, "")>>, NoDraft)
    ELSE IF ExceedsHardMax(reply, guardrails)
    THEN Decision("escalate", NoCounterOffer,
               <<Rationale("exceeds_max", reply.rateUsd,
                           guardrails.maxUsdPerDeal, "")>>, NoDraft)
    ELSE IF ExceedsThreshold(reply, guardrails)
    THEN Decision("escalate", NoCounterOffer,
               <<Rationale("exceeds_threshold", reply.rateUsd,
                           RoundedThreshold(guardrails),
                           ToString(guardrails.escalation.aboveMaxPct))>>,
               NoDraft)
    ELSE LowerRules(reply, campaign)

\* decide_next_logic(reply, campaign, lead)
decide_next_logic(reply, campaign, lead) ==
    LET guardrails == campaign.guardrails
    IN
    IF reply.intent = "not_interested"
    THEN Decision("pass", NoCounterOffer,
               <<Rationale("declined", Undefined, Undefined, "")>>, NoDraft)
    ELSE IF ExceedsHardMax(reply, guardrails)
    THEN Decision("escalate", NoCounterOffer,
               <<Rationale("exceeds_max", reply.rateUsd,
                           guardrails.maxUsdPerDeal, "")>>, NoDraft)
    ELSE IF ExceedsThreshold(reply, guardrails)
    THEN Decision("escalate", NoCounterOffer,
               <<Rationale("exceeds_threshold", reply.rateUsd,
                           RoundedThreshold(guardrails),
                           ToString(guardrails.escalation.aboveMaxPct))>>,
               NoDraft)
    ELSE LowerRules(reply, campaign)

(***************************************************************************)
(* Deliveries arriving one after another: a request is accepted only when  *)
(* no other request is in flight.                                          *)
(***************************************************************************)
AllIdle == \A p \in Procs : h[p].pc = "idle"

WebhookNextSeq ==
    \/ \E p \in Procs, r \in Requests :
          \E t \in Timestamps(r) : AllIdle /\ Receive(p, r, t)
    \/ \E p \in Procs, ok \in BOOLEAN : GetReturn(p, ok)
    \/ \E p \in Procs, ok \in BOOLEAN : SetReturn(p, ok)
    \/ \E p \in Procs, o \in FetchOutcomes : FetchReturn(p, o)
    \/ \E k \in Keys : Expire(k)

(***************************************************************************)
(* Inputs of the negotiation entrypoints.                                  *)
(***************************************************************************)
ReplyIntents == {"interested", "not_interested", "needs_info", "sends_rate",
                 "accepts", "counter_offer", "other"}

\* creator rates, in cents
RateValues == {45000, 50000, 90000, 500000, 520000, 620000}

\* guardrails.maxUsdPerDeal, in cents
Ceilings == {80000, 100000, 500000}

\* escalation.aboveMaxPct
Percentages == {0, 20}

OfferCatalogue ==
    { [key |-> "ugc_video", usage |-> "organic_only", baselineUsd |-> 50000],
      [key |-> "bundle", usage |-> "paid_usage_ok", baselineUsd |-> 100000],
      [key |-> "shoutout", usage |-> "organic_only",
       baselineUsd |-> Undefined] }

\* offerMenu: z.array(OfferItem).min(1)
Menus == UNION { [1..n -> OfferCatalogue] : n \in 1..MaxMenuLen }

Campaigns ==
    [ name : {"campaign"},
      offerMenu : Menus,
      guardrails :
        [ maxUsdPerDeal : Ceilings,
          escalation :
            [ aboveMaxPct : Percentages,
              asksExclusivity : BOOLEAN,
              asksWhitelisting : BOOLEAN,
              unclearUsage : BOOLEAN ] ] ]

\* replies handed to decide_next (DecideNextInput)
Replies ==
    [ intent : ReplyIntents,
      rateUsd : RateValues \cup {Undefined},
      asksExclusivity : BOOLEAN,
      asksWhitelisting : BOOLEAN,
      timeline : {NoText},
      usage : {NoText, "organic_only"},
      raw : {"reply"} ]

LeadStatuses == {"new", "queued", "dm_sent", "email_sent", "public_replied",
                 "replied", "negotiating", "won", "lost", "escalated"}

\* a Lead, with the fields the entrypoints read or write
MakeLead(id, handle, email, status) ==
    [xUserId |-> id, handle |-> handle, email |-> email, threadId |-> NoText,
     status |-> status, lastContactAt |-> Undefined, dmCount |-> 0,
     emailCount |-> 0]

TheLead == MakeLead("1001", "creator", "creator@mail.test", "replied")

NoLead == MakeLead("", "", NoText, "")

NoMessage == [from |-> "", thread_id |-> ""]

Fragments ==
    { "Thanks but not interested,", "No thanks", "I'll pass for now",
      "my rate is normally $5000", "Sounds good", "what about $5,200",
      "exclusive deal" }

\* message texts: one phrase, or two phrases separated by a space
Texts == Fragments \cup { a \o " " \o b : a \in Fragments, b \in Fragments }

\* one reply text for each action a decision can take
LeadTexts == {"No thanks", "my rate is normally $5000", "what about $5,200",
              "what about $900", "Sounds good"}

\* parseReplyText on each message text of the model, computed once
ParsedTexts == [t \in Texts \cup LeadTexts |-> parseReplyText(t)]

NoReply == [intent |-> "", rateUsd |-> Undefined, asksExclusivity |-> FALSE,
            asksWhitelisting |-> FALSE, timeline |-> NoText, usage |-> NoText,
            raw |-> ""]

NoCampaign ==
    [ name |-> "",
      offerMenu |-> << >>,
      guardrails |-> [ maxUsdPerDeal |-> Undefined,
                       escalation |-> [ aboveMaxPct |-> 0,
                                        asksExclusivity |-> FALSE,
                                        asksWhitelisting |-> FALSE,
                                        unclearUsage |-> FALSE ] ] ]

NoDecision == Decision("", NoCounterOffer, << >>, NoDraft)

\* the ctx state keys that hold configuration
ConfigKeys == {"campaign", "x", "agentmail"}

NoSend == [sent |-> FALSE, messageId |-> "", error |-> ""]

NegotiationInit ==
    /\ stage = "idle"
    /\ entry = ""
    /\ msgText = NoText
    /\ parsedReply = NoReply
    /\ activeCampaign = NoCampaign
    /\ decision = NoDecision

RunInit ==
    /\ message = NoMessage
    /\ leadsRead = << >>
    /\ matched = 0
    /\ resultLead = NoLead
    /\ leadWrites = 0
    /\ sendResult = NoSend
    /\ outbox = << >>
    /\ outreachResult = << >>

\* a store holding one lead, all configuration present, no DM sent yet
CtxInit ==
    /\ leads = <<TheLead>>
    /\ configured = ConfigKeys
    /\ dailyDmCount = Undefined
    /\ lastDmDate = NoText

\* decide_next({lead, reply, campaign})
DecideNext(r, c) ==
    /\ stage = "idle"
    /\ stage' = "decided"
    /\ entry' = "decide_next"
    /\ parsedReply' = r
    /\ activeCampaign' = c
    /\ decision' = decide_next_logic(r, c, TheLead)
    /\ UNCHANGED <<msgText, ctxVars, runVars>>

\* variant: an event that matches no lead is given to the first stored lead
FindLead_first(ls, msg) ==
    LET S == {i \in 1..Len(ls) :
                \/ ls[i].email # NoText /\ ls[i].email = msg.from
                \/ ls[i].threadId # NoText /\ ls[i].threadId = msg.thread_id}
    IN IF S = {} THEN (IF Len(ls) > 0 THEN 1 ELSE 0) ELSE FirstOf(S)

\* leads.find(l => l.email === message.from || l.threadId === message.thread_id)
FindLead(ls, msg) ==
    LET S == {i \in 1..Len(ls) :
                \/ ls[i].email # NoText /\ ls[i].email = msg.from
                \/ ls[i].threadId # NoText /\ ls[i].threadId = msg.thread_id}
    IN IF S = {} THEN 0 ELSE FirstOf(S)

\* variant: every decision that is not an accept keeps the lead negotiating
StatusFor_open(action) ==
    IF action = "accept" THEN "won" ELSE "negotiating"

\* the status agentmail_ingest_event stores for a decision
StatusFor(action) ==
    IF action = "escalate" THEN "escalated"
    ELSE IF action = "pass" THEN "lost"
    ELSE IF action = "accept" THEN "won"
    ELSE "negotiating"

\* leads.map(l => l.xUserId === lead.xUserId ? updatedLead : l)
ReplaceLead(ls, id, updatedLead) ==
    [i \in 1..Len(ls) |-> IF ls[i].xUserId = id THEN updatedLead ELSE ls[i]]

\* agentmail_ingest_event: the Lead array is read, the lead looked up and the
\* message text parsed; without a lead the entrypoint returns here
IngestParse(t, msg) ==
    /\ stage = "idle"
    /\ entry' = "agentmail_ingest_event"
    /\ message' = msg
    /\ leadsRead' = leads
    /\ matched' = FindLead(leads, msg)
    /\ msgText' = t
    /\ parsedReply' = ParsedTexts[t]
    /\ stage' = IF FindLead(leads, msg) = 0 THEN "unmatched" ELSE "parsed"
    /\ UNCHANGED <<activeCampaign, decision, ctxVars, resultLead, leadWrites,
                   sendResult, outbox, outreachResult>>

\* agentmail_ingest_event: the campaign is read, the decision made and the
\* updated lead saved
IngestDecide(c) ==
    /\ stage = "parsed"
    /\ "campaign" \in configured
    /\ LET lead == leadsRead[matched]
           d == decide_next_logic(parsedReply, c, lead)
           updatedLead == [lead EXCEPT !.status = StatusFor(d.action),
                                       !.threadId = message.thread_id]
       IN /\ decision' = d
          /\ leads' = ReplaceLead(leadsRead, lead.xUserId, updatedLead)
          /\ resultLead' = updatedLead
    /\ leadWrites' = leadWrites + 1
    /\ activeCampaign' = c
    /\ stage' = "decided"
    /\ UNCHANGED <<entry, msgText, parsedReply, configured, dailyDmCount,
                   lastDmDate, message, leadsRead, matched, sendResult, outbox,
                   outreachResult>>

\* agentmail_ingest_event: "No campaign configured" is thrown
IngestNoCampaign ==
    /\ stage = "parsed"
    /\ "campaign" \notin configured
    /\ stage' = "failed"
    /\ UNCHANGED <<entry, msgText, parsedReply, activeCampaign, decision,
                   ctxVars, runVars>>

\* variant: the draft is not looked at; the rationale is sent when there is none
agentmail_send_reply_always(d, threadId, keys, apiOk, box) ==
    [result |-> [sent |-> TRUE, messageId |-> "msg", error |-> ""],
     outbox |-> Append(box, [thread_id |-> threadId, text |-> d.replyDraft])]

\* agentmail_send_reply({lead, decision, threadId}): its result and the
\* replies AgentMail has been handed
agentmail_send_reply(d, threadId, keys, apiOk, box) ==
    IF d.replyDraft = NoDraft
    THEN [result |-> NoSend, outbox |-> box]
    ELSE IF "agentmail" \notin keys
    THEN [result |-> [NoSend EXCEPT !.error = "AgentMail not configured"],
          outbox |-> box]
    ELSE IF ~apiOk
    THEN [result |-> [NoSend EXCEPT !.error = "replyToThread failed"],
          outbox |-> box]
    ELSE [result |-> [sent |-> TRUE, messageId |-> "msg", error |-> ""],
          outbox |-> Append(box, [thread_id |-> threadId,
                                  text |-> d.replyDraft])]

\* agentmail_send_reply on the decision agentmail_ingest_event returned
SendReply(apiOk) ==
    /\ stage = "decided"
    /\ LET r == agentmail_send_reply(decision, message.thread_id, configured,
                                     apiOk, outbox)
       IN /\ sendResult' = r.result
          /\ outbox' = r.outbox
    /\ stage' = "replied"
    /\ UNCHANGED <<entry, msgText, parsedReply, activeCampaign, decision,
                   ctxVars, message, leadsRead, matched, resultLead,
                   leadWrites, outreachResult>>

(***************************************************************************)
(* send_outreach and ingest_replies_x.                                     *)
(***************************************************************************)
OutreachChannels == {"x_dm", "email", "x_reply"}

\* plan_outreach: a lead in status new or queued is planned as queued, a
\* lead in any other status is skipped
PlanLead(lead) == [lead EXCEPT !.status = "queued"]

Plannable(lead) == lead.status \in {"new", "queued"}

\* leadMap.set(lead.xUserId, updatedLead)
SetLead(ls, updatedLead) ==
    IF \E i \in 1..Len(ls) : ls[i].xUserId = updatedLead.xUserId
    THEN ReplaceLead(ls, updatedLead.xUserId, updatedLead)
    ELSE Append(ls, updatedLead)

\* the thread AgentMail opens for the first e-mail to a lead
MailThread(lead) == "thread_" \o lead.xUserId

OutreachOutcome(item, success, error) ==
    [leadHandle |-> item.lead.handle, channel |-> item.channel,
     success |-> success, error |-> error]

\* variant: the cap is tested with > instead of >=
SendItem_overCap(item, acc, env, sendOk) ==
    LET lead == item.lead
        fail(msg) ==
            [acc EXCEPT !.results = Append(@, OutreachOutcome(item, FALSE, msg))]
        ok(updatedLead, dms) ==
            [acc EXCEPT !.leadMap = SetLead(@, updatedLead),
                        !.dailyDmCount = @ + dms,
                        !.countSaved = @ \/ dms > 0,
                        !.sent = @ + dms,
                        !.results = Append(@, OutreachOutcome(item, TRUE, ""))]
    IN
    IF item.channel = "x_dm"
    THEN IF acc.dailyDmCount > env.dmDailyCap
         THEN fail("Daily DM cap reached")
         ELSE IF ~sendOk THEN fail("sendDM failed")
         ELSE ok([lead EXCEPT !.status = "dm_sent",
                              !.lastContactAt = env.now,
                              !.dmCount = @ + 1], 1)
    ELSE IF item.channel = "email"
    THEN IF ~env.agentmail THEN fail("AgentMail not configured")
         ELSE IF lead.email = NoText THEN fail("No email address")
         ELSE IF ~sendOk THEN fail("sendMessage failed")
         ELSE ok([lead EXCEPT !.status = "email_sent",
                              !.lastContactAt = env.now,
                              !.emailCount = @ + 1,
                              !.threadId = MailThread(lead)], 0)
    ELSE ok([lead EXCEPT !.status = "public_replied"], 0)

\* one turn of the loop over the planned items of send_outreach
SendItem(item, acc, env, sendOk) ==
    LET lead == item.lead
        fail(msg) ==
            [acc EXCEPT !.results = Append(@, OutreachOutcome(item, FALSE, msg))]
        ok(updatedLead, dms) ==
            [acc EXCEPT !.leadMap = SetLead(@, updatedLead),
                        !.dailyDmCount = @ + dms,
                        !.countSaved = @ \/ dms > 0,
                        !.sent = @ + dms,
                        !.results = Append(@, OutreachOutcome(item, TRUE, ""))]
    IN
    IF item.channel = "x_dm"
    THEN IF acc.dailyDmCount >= env.dmDailyCap
         THEN fail("Daily DM cap reached")
         ELSE IF ~sendOk THEN fail("sendDM failed")
         ELSE ok([lead EXCEPT !.status = "dm_sent",
                              !.lastContactAt = env.now,
                              !.dmCount = @ + 1], 1)
    ELSE IF item.channel = "email"
    THEN IF ~env.agentmail THEN fail("AgentMail not configured")
         ELSE IF lead.email = NoText THEN fail("No email address")
         ELSE IF ~sendOk THEN fail("sendMessage failed")
         ELSE ok([lead EXCEPT !.status = "email_sent",
                              !.lastContactAt = env.now,
                              !.emailCount = @ + 1,
                              !.threadId = MailThread(lead)], 0)
    ELSE ok([lead EXCEPT !.status = "public_replied"], 0)

\* for (const item of planned) { ... }
RECURSIVE SendItems(_, _, _, _, _)
SendItems(planned, k, acc, env, sendOks) ==
    IF k > Len(planned) THEN acc
    ELSE SendItems(planned, k + 1,
                   SendItem(planned[k], acc, env, sendOks[k]), env, sendOks)

\* send_outreach({planned}) with campaign and X credentials configured
SendOutreach(planned, dmDailyCap, today, now, sendOks) ==
    /\ stage = "idle"
    /\ {"campaign", "x"} \subseteq configured
    /\ LET count == IF lastDmDate # today \/ dailyDmCount = Undefined
                    THEN 0 ELSE dailyDmCount
           env == [dmDailyCap |-> dmDailyCap, now |-> now,
                   agentmail |-> "agentmail" \in configured]
       IN \E acc \in {SendItems(planned, 1,
                                [leadMap |-> leads, dailyDmCount |-> count,
                                 countSaved |-> FALSE, sent |-> 0,
                                 results |-> << >>],
                                env, sendOks)} :
          /\ lastDmDate' = today
          /\ dmsSent' = [dmsSent EXCEPT ![today] = @ + acc.sent]
          /\ returned' = returned
          /\ dailyDmCount' = IF acc.countSaved THEN acc.dailyDmCount
                             ELSE dailyDmCount
          /\ leads' = acc.leadMap
          /\ outreachResult' = acc.results
    /\ leadWrites' = leadWrites + 1
    /\ entry' = "send_outreach"
    /\ stage' = "done"
    /\ UNCHANGED <<msgText, parsedReply, activeCampaign, decision, configured,
                   message, leadsRead, matched, resultLead, sendResult, outbox>>

\* send_outreach or ingest_replies_x without the configuration it needs
ThrowNotConfigured(name, needed) ==
    /\ stage = "idle"
    /\ ~(needed \subseteq configured)
    /\ entry' = name
    /\ stage' = "failed"
    /\ UNCHANGED <<msgText, parsedReply, activeCampaign, decision, ctxVars,
                   runVars>>

\* the DM events of one lead that ingest_replies_x keeps as replies
NewReplies(lead, events) ==
    SelectSeq(events,
              LAMBDA createdAt :
                  ~(lead.lastContactAt # Undefined
                      /\ createdAt <= lead.lastContactAt))

\* a lead with replies becomes replied; replies.find gives the first of them
MarkReplied(lead, replies) ==
    IF replies = << >> THEN lead
    ELSE [lead EXCEPT !.status = "replied", !.lastContactAt = replies[1]]

\* ingest_replies_x({}): events[i] lists the createdAt of the DMs lead i
\* sent, in the order the API returns them; fetchOk[i] is false when
\* getDMEvents throws for lead i
IngestRepliesX(events, fetchOk) ==
    /\ stage = "idle"
    /\ "x" \in configured
    /\ LET dm(i) == leads[i].status \in {"dm_sent", "negotiating"}
           replies(i) == IF dm(i) /\ fetchOk[i]
                         THEN NewReplies(leads[i], events[i]) ELSE << >>
           any == \E i \in 1..Len(leads) : replies(i) # << >>
       IN /\ leads' = [i \in 1..Len(leads) |-> MarkReplied(leads[i], replies(i))]
          /\ leadWrites' = IF any THEN leadWrites + 1 ELSE leadWrites
          /\ outreachResult' = [i \in 1..Len(leads) |-> replies(i)]
    /\ entry' = "ingest_replies_x"
    /\ stage' = "done"
    /\ UNCHANGED <<msgText, parsedReply, activeCampaign, decision, configured,
                   dailyDmCount, lastDmDate, message, leadsRead, matched,
                   resultLead, sendResult, outbox>>

\* the entrypoint has returned or thrown; its locals are gone
Return ==
    /\ stage \in {"decided", "unmatched", "failed", "done"}
    /\ stage' = "idle"
    /\ entry' = ""
    /\ msgText' = NoText
    /\ parsedReply' = NoReply
    /\ activeCampaign' = NoCampaign
    /\ decision' = NoDecision
    /\ message' = NoMessage
    /\ leadsRead' = << >>
    /\ matched' = 0
    /\ resultLead' = NoLead
    /\ leadWrites' = 0
    /\ sendResult' = NoSend
    /\ outreachResult' = << >>
    /\ UNCHANGED <<ctxVars, outbox>>

\* the message that reaches the one stored lead
TheMessage == [from |-> TheLead.email, thread_id |-> "thread_1"]

NegotiationNext ==
    \/ stage = "idle" /\ \E r \in Replies, c \in Campaigns : DecideNext(r, c)
    \/ stage = "idle" /\ \E t \in Texts : IngestParse(t, TheMessage)
    \/ stage = "parsed" /\ \E c \in Campaigns : IngestDecide(c)
    \/ /\ stage = "decided" /\ entry = "agentmail_ingest_event"
       /\ \E apiOk \in BOOLEAN : SendReply(apiOk)

(***************************************************************************)
(* Inputs of the entrypoints working on a store of two discovered leads.   *)
(***************************************************************************)
DiscoveredLeads ==
    << MakeLead("1001", "creator", "creator@mail.test", "new"),
       MakeLead("1002", "maker", "maker@mail.test", "new") >>

\* the configurations of the ctx state: complete, or one key missing
LeadConfigs == {ConfigKeys} \cup {ConfigKeys \ {k} : k \in ConfigKeys}

\* messages from either lead, from an unknown sender, and from an unknown
\* address on the first lead's thread
LeadMessages ==
    { [from |-> "creator@mail.test", thread_id |-> "thread_1001"],
      [from |-> "maker@mail.test", thread_id |-> "thread_1002"],
      [from |-> "other@mail.test", thread_id |-> "thread_9"],
      [from |-> "other@mail.test", thread_id |-> "thread_1001"] }

\* ceiling $5000, one offer at $500, usage not asked about
LeadCampaign ==
    [ name |-> "campaign",
      offerMenu |-> << [key |-> "ugc_video", usage |-> "organic_only",
                        baselineUsd |-> 50000] >>,
      guardrails |-> [ maxUsdPerDeal |-> 500000,
                       escalation |-> [ aboveMaxPct |-> 20,
                                        asksExclusivity |-> TRUE,
                                        asksWhitelisting |-> TRUE,
                                        unclearUsage |-> FALSE ] ] ]

\* campaign.outreach.dmDailyCap of that campaign
LeadDmDailyCap == 1

\* planned items for a lead: plan_outreach applied to the lead as discovered
\* or as stored now
PlannedItems(i) ==
    { [lead |-> PlanLead(l), channel |-> ch] :
        l \in {x \in {DiscoveredLeads[i], leads[i]} : Plannable(x)},
        ch \in OutreachChannels }

\* plans of plan_outreach over a list without repeated leads
Plans ==
    LET n == Len(DiscoveredLeads)
        pairs == {p \in (1..n) \X (1..n) : p[1] # p[2]}
    IN UNION { { <<a>> : a \in PlannedItems(i) } : i \in 1..n }
       \cup UNION { { <<a, b>> : a \in PlannedItems(p[1]),
                                 b \in PlannedItems(p[2]) } : p \in pairs }

\* DM events of a lead returned by one poll
LeadEventLists == {<< >>, <<2>>}

\* replies handed to decide_next: the parsed texts
LeadReplies == {ParsedTexts[t] : t \in LeadTexts}

\* calendar days (UTC) in the order they come
LeadDays == <<"2026-01-01", "2026-01-02">>

\* the days today can be: not before the day of the last send_outreach call
DaysFrom(date) ==
    {d \in 1..Len(LeadDays) :
        \A e \in 1..Len(LeadDays) : LeadDays[e] = date => d >= e}

\* new Date().toISOString() on day d, as a number
NowOn(d) == 2 * d - 1

SentInit ==
    /\ dmsSent = [d \in {LeadDays[i] : i \in 1..Len(LeadDays)} |-> 0]
    /\ returned = {}

LeadNext ==
    \/ /\ stage = "idle" /\ \E r \in LeadReplies : DecideNext(r, LeadCampaign)
       /\ UNCHANGED sentVars
    \/ /\ stage = "idle"
       /\ \E t \in LeadTexts, m \in LeadMessages : IngestParse(t, m)
       /\ UNCHANGED sentVars
    \/ stage = "parsed" /\ IngestDecide(LeadCampaign) /\ UNCHANGED sentVars
    \/ IngestNoCampaign /\ UNCHANGED sentVars
    \/ stage = "idle"
       /\ \E planned \in Plans :
             \E sendOks \in [1..Len(planned) -> BOOLEAN] :
                   SendOutreach(planned, LeadDmDailyCap, LeadDays[1], NowOn(1),
                                sendOks)
    \/ /\ ThrowNotConfigured("send_outreach", {"campaign", "x"})
       /\ UNCHANGED sentVars
    \/ /\ stage = "idle"
       /\ \E events \in [1..Len(leads) -> LeadEventLists],
             fetchOk \in [1..Len(leads) -> BOOLEAN] :
             IngestRepliesX(events, fetchOk)
       /\ UNCHANGED sentVars
    \/ /\ stage = "idle" /\ "x" \notin configured
       /\ ThrowNotConfigured("ingest_replies_x", {"x"})
       /\ UNCHANGED sentVars
    \/ Return /\ UNCHANGED sentVars

\* send_outreach calls made one after the other, on the same day or on the
\* next
SendNext ==
    \/ stage = "idle"
       /\ \E planned \in Plans, d \in DaysFrom(lastDmDate) :
             \E sendOks \in [1..Len(planned) -> BOOLEAN] :
                   SendOutreach(planned, LeadDmDailyCap, LeadDays[d], NowOn(d),
                                sendOks)
    \/ /\ ThrowNotConfigured("send_outreach", {"campaign", "x"})
       /\ UNCHANGED sentVars
    \/ Return /\ UNCHANGED sentVars

\* DM conversations of a lead as one poll lists them: empty, one message,
\* or two messages in either order
PollEventLists == {<< >>, <<2>>, <<2, 3>>, <<3, 2>>}

\* emails answered between two polls: a refusal and a question, from
\* either lead
PollTexts == {"No thanks", "what about $900"}

PollMessages == {m \in LeadMessages : m.from # "other@mail.test"}

\* the pairs <<lead index, createdAt>> of the replies a poll returned
RepliesOf(res) ==
    UNION {{<<i, res[i][k]>> : k \in DOMAIN res[i]} : i \in DOMAIN res}

\* successive ingest_replies_x polls of the DM'd leads, with the DMs sent
\* by send_outreach and the email replies handled by agentmail_ingest_event
\* in between
PollNext ==
    \/ /\ stage = "idle"
       /\ \E events \in [1..Len(leads) -> PollEventLists],
             fetchOk \in [1..Len(leads) -> BOOLEAN] :
             IngestRepliesX(events, fetchOk)
       /\ dmsSent' = dmsSent
       /\ returned' = returned \cup RepliesOf(outreachResult')
    \/ stage = "idle"
       /\ \E planned \in Plans :
             \E sendOks \in [1..Len(planned) -> BOOLEAN] :
                   SendOutreach(planned, LeadDmDailyCap, LeadDays[1],
                                NowOn(1), sendOks)
    \/ /\ stage = "idle"
       /\ \E t \in PollTexts, m \in PollMessages : IngestParse(t, m)
       /\ UNCHANGED sentVars
    \/ stage = "parsed" /\ IngestDecide(LeadCampaign) /\ UNCHANGED sentVars
    \/ Return /\ UNCHANGED sentVars

(***************************************************************************)
(* agentmail_ingest_event called again while a call is suspended at one of  *)
(* its awaits.  A call reads the Lead array, later reads the campaign,      *)
(* decides and hands the whole updated array to setState.                   *)
(***************************************************************************)
Runs == 1..NumRuns

IdleRun == [pc |-> "idle", message |-> NoMessage, text |-> NoText,
            leadsRead |-> << >>, matched |-> 0, reply |-> NoReply,
            decision |-> NoDecision, lead |-> NoLead]

RaceInit ==
    /\ runs = [p \in Runs |-> IdleRun]
    /\ lastWriter = 0

\* await ctx.getState("leads"), leads.find and parseReplyText of call p
RaceRead(p, t, msg) ==
    /\ runs[p].pc = "idle"
    /\ runs' = [runs EXCEPT ![p] =
                  [IdleRun EXCEPT
                     !.pc = IF FindLead(leads, msg) = 0
                            THEN "unmatched" ELSE "parsed",
                     !.message = msg,
                     !.text = t,
                     !.leadsRead = leads,
                     !.matched = FindLead(leads, msg),
                     !.reply = ParsedTexts[t]]]
    /\ UNCHANGED <<ctxVars, lastWriter>>

\* variant: the call reads the Lead array again when it saves, and replaces
\* its lead in that
RaceDecide_fresh(p, c) ==
    /\ runs[p].pc = "parsed"
    /\ "campaign" \in configured
    /\ LET r == runs[p]
           lead == r.leadsRead[r.matched]
           d == decide_next_logic(r.reply, c, lead)
           updatedLead == [lead EXCEPT !.status = StatusFor(d.action),
                                       !.threadId = r.message.thread_id]
       IN /\ leads' = ReplaceLead(leads, lead.xUserId, updatedLead)
          /\ runs' = [runs EXCEPT ![p].pc = "decided",
                                  ![p].decision = d,
                                  ![p].lead = updatedLead]
    /\ lastWriter' = p
    /\ UNCHANGED <<configured, dailyDmCount, lastDmDate>>

\* await ctx.getState("campaign"), decide_next_logic and ctx.setState of
\* call p
RaceDecide(p, c) ==
    /\ runs[p].pc = "parsed"
    /\ "campaign" \in configured
    /\ LET r == runs[p]
           lead == r.leadsRead[r.matched]
           d == decide_next_logic(r.reply, c, lead)
           updatedLead == [lead EXCEPT !.status = StatusFor(d.action),
                                       !.threadId = r.message.thread_id]
       IN /\ leads' = ReplaceLead(r.leadsRead, lead.xUserId, updatedLead)
          /\ runs' = [runs EXCEPT ![p].pc = "decided",
                                  ![p].decision = d,
                                  ![p].lead = updatedLead]
    /\ lastWriter' = p
    /\ UNCHANGED <<configured, dailyDmCount, lastDmDate>>

\* call p throws "No campaign configured"
RaceNoCampaign(p) ==
    /\ runs[p].pc = "parsed"
    /\ "campaign" \notin configured
    /\ runs' = [runs EXCEPT ![p].pc = "failed"]
    /\ UNCHANGED <<ctxVars, lastWriter>>

\* call p has returned or thrown
RaceReturn(p) ==
    /\ runs[p].pc \in {"decided", "unmatched", "failed"}
    /\ runs' = [runs EXCEPT ![p] = IdleRun]
    /\ lastWriter' = IF lastWriter = p THEN 0 ELSE lastWriter
    /\ UNCHANGED ctxVars

\* two leads that have been sent an e-mail each
ContactedLeads ==
    [i \in 1..Len(DiscoveredLeads) |->
        [DiscoveredLeads[i] EXCEPT !.status = "email_sent",
                                   !.lastContactAt = 1,
                                   !.emailCount = 1,
                                   !.threadId = MailThread(DiscoveredLeads[i])]]

\* distinct events: two replies of the first lead, one of the second and
\* one of a stranger
RaceEvents ==
    { [text |-> "No thanks",
       message |-> [from |-> "creator@mail.test", thread_id |-> "thread_1001"]],
      [text |-> "Sounds good",
       message |-> [from |-> "creator@mail.test", thread_id |-> "thread_1001"]],
      [text |-> "No thanks",
       message |-> [from |-> "maker@mail.test", thread_id |-> "thread_1002"]],
      [text |-> "Sounds good",
       message |-> [from |-> "other@mail.test", thread_id |-> "thread_9"]] }

RaceNext ==
    \E p \in Runs :
        \/ \E e \in RaceEvents : RaceRead(p, e.text, e.message)
        \/ RaceDecide(p, LeadCampaign)
        \/ RaceNoCampaign(p)
        \/ RaceReturn(p)

(***************************************************************************)
(* parseReplyText applied to reply texts.                                  *)
(***************************************************************************)
\* the empty text, a phrase of each keyword category, of each flag and of
\* none, in lower and upper case; amounts written with a currency symbol
\* or a currency word, and numbers that are no amounts
ParseFragments ==
    { "", "I am not interested", "NO THANKS", "Sounds good",
      "my rate is $900", "what details", "works for me", "how about later",
      "hello there", "exclusive deal", "paid ads", "Exclusivity and boost",
      "$0", "fee $1234", "1,500 Dollars", "in 2026" }

\* one fragment, or two separated by a space
ParseTexts ==
    ParseFragments
        \cup { a \o " " \o b : a \in ParseFragments, b \in ParseFragments }

\* parseReplyText(text)
ParseReply(t) ==
    /\ stage = "idle"
    /\ entry' = "parseReplyText"
    /\ msgText' = t
    /\ parsedReply' = parseReplyText(t)
    /\ stage' = "done"
    /\ UNCHANGED <<activeCampaign, decision, ctxVars, runVars>>

ParseNext ==
    \/ \E t \in ParseTexts : ParseReply(t)
    \/ Return

(***************************************************************************)
(* The body of a webhook on its way from the signer to the handler.  The   *)
(* signer signs the bytes it sends; the handler decodes the bytes it       *)
(* receives with Buffer.toString("utf8") and verifies the resulting        *)
(* string.  A signature is the tuple of what went into it.                 *)
(***************************************************************************)
Replacement == 65533          \* U+FFFD

NoDecoding == [needed |-> 0, seen |-> 0, cp |-> 0, lower |-> 128, upper |-> 191]

\* Buffer.toString("utf8") from byte i on: the code points decoded, an
\* ill-formed or truncated sequence giving one U+FFFD
RECURSIVE DecodeFrom(_, _, _, _)
DecodeFrom(bytes, i, st, out) ==
    IF i > Len(bytes)
    THEN IF st.needed # 0 THEN Append(out, Replacement) ELSE out
    ELSE
    CHOOSE r \in
      { IF st.needed = 0
        THEN IF b <= 127
             THEN DecodeFrom(bytes, i + 1, NoDecoding, Append(out, b))
             ELSE IF b >= 194 /\ b <= 223
             THEN DecodeFrom(bytes, i + 1,
                             [NoDecoding EXCEPT !.needed = 1, !.cp = b % 32],
                             out)
             ELSE IF b >= 224 /\ b <= 239
             THEN DecodeFrom(bytes, i + 1,
                             [NoDecoding EXCEPT
                                !.needed = 2, !.cp = b % 16,
                                !.lower = IF b = 224 THEN 160 ELSE 128,
                                !.upper = IF b = 237 THEN 159 ELSE 191],
                             out)
             ELSE IF b >= 240 /\ b <= 244
             THEN DecodeFrom(bytes, i + 1,
                             [NoDecoding EXCEPT
                                !.needed = 3, !.cp = b % 8,
                                !.lower = IF b = 240 THEN 144 ELSE 128,
                                !.upper = IF b = 244 THEN 143 ELSE 191],
                             out)
             ELSE DecodeFrom(bytes, i + 1, NoDecoding,
                             Append(out, Replacement))
        ELSE IF b < st.lower \/ b > st.upper
        THEN DecodeFrom(bytes, i, NoDecoding, Append(out, Replacement))
        ELSE IF st.seen + 1 = st.needed
        THEN DecodeFrom(bytes, i + 1, NoDecoding,
                        Append(out, st.cp * 64 + (b % 64)))
        ELSE DecodeFrom(bytes, i + 1,
                        [st EXCEPT !.seen = @ + 1, !.cp = @ * 64 + (b % 64),
                                   !.lower = 128, !.upper = 191],
                        out) : b \in {bytes[i]} } : TRUE

\* req.body.toString("utf8")
toStringUtf8(bytes) == DecodeFrom(bytes, 1, NoDecoding, << >>)

\* the UTF-8 bytes of one code point
EncodeChar(cp) ==
    IF cp < 128 THEN <<cp>>
    ELSE IF cp < 2048 THEN <<192 + (cp \div 64), 128 + (cp % 64)>>
    ELSE IF cp < 65536
    THEN <<224 + (cp \div 4096), 128 + ((cp \div 64) % 64), 128 + (cp % 64)>>
    ELSE <<240 + (cp \div 262144), 128 + ((cp \div 4096) % 64),
           128 + ((cp \div 64) % 64), 128 + (cp % 64)>>

\* the UTF-8 bytes of a string
RECURSIVE EncodeUtf8(_)
EncodeUtf8(str) ==
    IF str = << >> THEN << >>
    ELSE EncodeChar(Head(str)) \o EncodeUtf8(Tail(str))

\* the signature of key over "id.timestamp.payload"
Sign(key, id, timestamp, payloadBytes) ==
    [key |-> key, id |-> id, timestamp |-> timestamp, payload |-> payloadBytes]

SigningSecret == "whsec"

\* new Webhook(config.signingSecret).verify(rawBody, headers): does not throw
wh_verify(rawBody, headers) ==
    headers.signature
        = Sign(SigningSecret, headers.id, headers.timestamp,
               EncodeUtf8(rawBody))

\* the status the handler answers after steps 1 to 3, 0 when the request
\* passes on to the dedupe check
VerifyStatus(bodyBytes, headers) ==
    CHOOSE status \in
      { IF rawBody = << >> THEN 400
        ELSE IF ~wh_verify(rawBody, headers) THEN 401
        ELSE 0 : rawBody \in {toStringUtf8(bodyBytes)} } : TRUE

NoHeaders == [id |-> "", timestamp |-> 0, signature |-> Sign("", "", 0, << >>)]

IdleWire == [pc |-> "idle", signed |-> << >>, sent |-> << >>,
             headers |-> NoHeaders, status |-> 0, rawBody |-> << >>]

WireInit == wire = IdleWire

\* the signer sends body under the svix id and timestamp, signed with key
SendSigned(key, id, timestamp, body) ==
    /\ wire.pc = "idle"
    /\ wire' = [IdleWire EXCEPT
                  !.pc = "sent",
                  !.signed = body,
                  !.sent = body,
                  !.headers = [id |-> id, timestamp |-> timestamp,
                               signature |-> Sign(key, id, timestamp, body)]]

\* byte i of the body is changed to b on the way
TamperBody(i, b) ==
    /\ wire.pc = "sent"
    /\ i \in 1..Len(wire.sent)
    /\ wire.sent[i] # b
    /\ wire' = [wire EXCEPT !.pc = "tampered", !.sent[i] = b]

\* the request is presented under another svix id
TamperId(id) ==
    /\ wire.pc = "sent"
    /\ wire.headers.id # id
    /\ wire' = [wire EXCEPT !.pc = "tampered", !.headers.id = id]

\* POST /webhooks/agentmail, steps 1 to 3
HandleBody ==
    /\ wire.pc \in {"sent", "tampered"}
    /\ wire' = [wire EXCEPT !.pc = "handled",
                            !.rawBody = toStringUtf8(wire.sent),
                            !.status = VerifyStatus(wire.sent, wire.headers)]

\* the next request
NextBody ==
    /\ wire.pc = "handled"
    /\ wire' = IdleWire

MaxBodyChars == 2     \* characters in a signed body

\* characters of a body: a letter, a quote and U+FFFD
BodyChars == {97, 34, Replacement}

\* the bodies a signer sends: well-formed UTF-8
SignedBodies ==
    UNION { { EncodeUtf8(str) : str \in [1..n -> BodyChars] }
              : n \in 1..MaxBodyChars }

\* byte values a changed byte can take
ByteValues == {97, 34, 239, 191, 189, 240, 255}

SvixIds == {"msg_1", "msg_2"}

WireNext ==
    \/ \E key \in {SigningSecret, "guess"}, id \in SvixIds,
          body \in SignedBodies : SendSigned(key, id, 1, body)
    \/ \E i \in 1..(3 * MaxBodyChars), b \in ByteValues : TamperBody(i, b)
    \/ \E id \in SvixIds : TamperId(id)
    \/ HandleBody
    \/ NextBody

(***************************************************************************)
(* x_outreach_bootstrap.  The call validates the payload and the X tokens, *)
(* creates the inbox and the webhook that the payload does not bring, and  *)
(* persists seven keys when no error was collected.                        *)
(***************************************************************************)
BootKeys == {"campaign", "x", "agentmail", "openclaw", "leads",
             "dailyDmCount", "lastDmDate"}

IdleBoot == [pc |-> "idle", inboxId |-> FALSE, webhookId |-> FALSE,
             errors |-> << >>, written |-> {}, ready |-> FALSE]

BootInit == boot = IdleBoot

\* 1. BootstrapPayload.safeParse(input); hasInbox and hasWebhook tell
\* whether the payload brings an inbox id and a webhook id
BootParse(valid, hasInbox, hasWebhook) ==
    /\ boot.pc = "idle"
    /\ boot' = IF valid
               THEN [IdleBoot EXCEPT !.pc = "bearer", !.inboxId = hasInbox,
                                     !.webhookId = hasWebhook]
               ELSE [IdleBoot EXCEPT
                        !.pc = "returned",
                        !.errors = <<"Invalid bootstrap payload">>]
    /\ UNCHANGED ctxVars

\* 2. validateXBearerToken
BootBearer(bearerValid) ==
    /\ boot.pc = "bearer"
    /\ boot' = [boot EXCEPT
                  !.pc = "user",
                  !.errors = IF bearerValid THEN @
                             ELSE Append(@, "X bearer token is invalid or expired")]
    /\ UNCHANGED ctxVars

\* validateXUserToken
BootUser(userValid) ==
    /\ boot.pc = "user"
    /\ boot' = [boot EXCEPT
                  !.pc = "inbox",
                  !.errors = IF userValid THEN @
                             ELSE Append(@, "X user access token appears invalid")]
    /\ UNCHANGED ctxVars

\* 3. createInbox when the payload brings no inbox
BootInbox(created) ==
    /\ boot.pc = "inbox"
    /\ boot.inboxId => created
    /\ boot' = [boot EXCEPT
                  !.pc = "webhook",
                  !.inboxId = @ \/ created,
                  !.errors = IF boot.inboxId \/ created THEN @
                             ELSE Append(@, "Failed to create AgentMail inbox")]
    /\ UNCHANGED ctxVars

\* createWebhook when there is an inbox and the payload brings no webhook
BootWebhook(created) ==
    /\ boot.pc = "webhook"
    /\ (~boot.inboxId \/ boot.webhookId) => created
    /\ boot' = [boot EXCEPT
                  !.pc = "persist",
                  !.webhookId = @ \/ (boot.inboxId /\ created),
                  !.errors = IF ~boot.inboxId \/ boot.webhookId \/ created
                             THEN @
                             ELSE Append(@, "Failed to create AgentMail webhook")]
    /\ UNCHANGED ctxVars

\* variant: the state is persisted when the X tokens are valid, whatever
\* AgentMail answered
Persists_tokensOnly(errors) ==
    \A k \in 1..Len(errors) :
        errors[k] \notin {"X bearer token is invalid or expired",
                          "X user access token appears invalid"}

\* if (errors.length === 0)
Persists(errors) == Len(errors) = 0

\* 4. the seven setState calls, and the return
BootPersist(today) ==
    /\ boot.pc = "persist"
    /\ IF Persists(boot.errors)
       THEN /\ configured' = {"campaign", "x", "agentmail", "openclaw"}
            /\ leads' = << >>
            /\ dailyDmCount' = 0
            /\ lastDmDate' = today
            /\ boot' = [boot EXCEPT !.pc = "returned", !.written = BootKeys,
                                    !.ready = Len(boot.errors) = 0]
       ELSE /\ UNCHANGED ctxVars
            /\ boot' = [boot EXCEPT !.pc = "returned",
                                    !.ready = Len(boot.errors) = 0]

\* the call has returned
BootReturn ==
    /\ boot.pc = "returned"
    /\ boot' = IdleBoot
    /\ UNCHANGED ctxVars

BootNext ==
    \/ \E valid, hasInbox, hasWebhook \in BOOLEAN :
          BootParse(valid, hasInbox, hasWebhook)
    \/ \E bearerValid \in BOOLEAN : BootBearer(bearerValid)
    \/ \E userValid \in BOOLEAN : BootUser(userValid)
    \/ \E created \in BOOLEAN : BootInbox(created)
    \/ \E created \in BOOLEAN : BootWebhook(created)
    \/ \E d \in 1..Len(LeadDays) : BootPersist(LeadDays[d])
    \/ BootReturn

(***************************************************************************)
(* plan_outreach.  A lead carries, besides the fields above, its bio and   *)
(* its preferred channel.                                                  *)
(***************************************************************************)
\* bioLower.includes("dm") || ... "open" || ... "collab" || ... "inquir"
dmsLikelyOpen(lead) ==
    /\ lead.bio # NoText
    /\ IncludesAny(toLowerCase(lead.bio), {"dm", "open", "collab", "inquir"})

\* lead.email && campaign.outreach.emailEnabled
EmailUsable(lead, outreach) == lead.email # NoText /\ outreach.emailEnabled

\* plan_outreach: "Determine channel"
ChannelFor(lead, outreach) ==
    IF lead.preferredChannel # NoText THEN lead.preferredChannel
    ELSE IF /\ outreach.preferDmIfOpen
            /\ ~(lead.bio # NoText /\ includes(lead.bio, "protected"))
    THEN IF dmsLikelyOpen(lead) THEN "x_dm"
         ELSE IF EmailUsable(lead, outreach) THEN "email"
         ELSE "x_reply"
    ELSE IF EmailUsable(lead, outreach) THEN "email"
    ELSE "x_reply"

\* plan_outreach({leads}): the planned and the skipped leads, in input order
plan_outreach(leadsIn, outreach) ==
    LET todo == SelectSeq(leadsIn, Plannable)
        rest == SelectSeq(leadsIn, LAMBDA l : ~Plannable(l))
    IN [ planned |-> [k \in 1..Len(todo) |->
                        [lead |-> PlanLead(todo[k]),
                         channel |-> ChannelFor(todo[k], outreach)]],
         skipped |-> [k \in 1..Len(rest) |->
                        [lead |-> rest[k], reason |-> rest[k].status]] ]

IdlePlan == [pc |-> "idle", leads |-> << >>,
             outreach |-> [preferDmIfOpen |-> TRUE, emailEnabled |-> TRUE],
             planned |-> << >>, skipped |-> << >>]

PlanInit == plan = IdlePlan

\* plan_outreach with a campaign configured
PlanOutreach(leadsIn, outreach) ==
    /\ plan.pc = "idle"
    /\ "campaign" \in configured
    /\ \E out \in {plan_outreach(leadsIn, outreach)} :
          plan' = [pc |-> "done", leads |-> leadsIn, outreach |-> outreach,
                   planned |-> out.planned, skipped |-> out.skipped]
    /\ UNCHANGED ctxVars

\* plan_outreach throws "No campaign configured."
PlanNoCampaign(leadsIn) ==
    /\ plan.pc = "idle"
    /\ "campaign" \notin configured
    /\ plan' = [IdlePlan EXCEPT !.pc = "failed", !.leads = leadsIn]
    /\ UNCHANGED ctxVars

\* the call has returned or thrown
PlanReturn ==
    /\ plan.pc \in {"done", "failed"}
    /\ plan' = IdlePlan
    /\ UNCHANGED ctxVars

MaxPlanLeads == 2     \* leads handed to one plan_outreach call

Bios == {NoText, "UGC creator", "DMs open for collabs",
         "protected account, dm me"}

\* a lead of plan_outreach
PlanCandidate(email, status, bio, pref) ==
    MakeLead("1001", "creator", email, status)
        @@ [bio |-> bio, preferredChannel |-> pref]

PlanEmails == {NoText, "creator@mail.test"}

\* new leads with every bio, with and without an e-mail address; leads
\* queued or contacted before; leads that state a preferred channel
PlanCandidates ==
    { PlanCandidate(email, "new", bio, NoText) :
        email \in PlanEmails, bio \in Bios }
    \cup { PlanCandidate(email, status, "DMs open for collabs", NoText) :
             email \in PlanEmails, status \in {"queued", "dm_sent"} }
    \cup { PlanCandidate(email, "new", "DMs open for collabs", "x_reply") :
             email \in PlanEmails }

OutreachConfigs == [preferDmIfOpen : BOOLEAN, emailEnabled : BOOLEAN]

PlanInputs == UNION { [1..n -> PlanCandidates] : n \in 1..MaxPlanLeads }

PlanNext ==
    \/ \E leadsIn \in PlanInputs, outreach \in OutreachConfigs :
          PlanOutreach(leadsIn, outreach)
    \/ \E leadsIn \in PlanInputs : PlanNoCampaign(leadsIn)
    \/ PlanReturn

(***************************************************************************)
(* Specifications.                                                         *)
(*   Spec     the webhook adapter serving concurrent requests              *)
(*   SpecSeq  the webhook adapter serving one request at a time            *)
(*   SpecLive the webhook adapter, with Redis settling every command       *)
(*   SpecLiveAnswered  SpecLive with a downstream that settles every fetch *)
(*   SpecNeg  the negotiation entrypoints                                  *)
(*   SpecLead the entrypoints that write the lead store, one at a time     *)
(*   SpecSend send_outreach calls over two days                            *)
(*   SpecPoll successive ingest_replies_x polls                            *)
(*   SpecRace agentmail_ingest_event calls whose awaits interleave         *)
(*   SpecParse parseReplyText on reply texts                               *)
(*   SpecWire a signed body that is changed before the handler verifies it *)
(*   SpecBoot x_outreach_bootstrap on a fresh and on a used store          *)
(*   SpecPlan plan_outreach on lists of leads                              *)
(***************************************************************************)
Init ==
    /\ WebhookInit /\ NegotiationInit /\ CtxInit /\ RunInit /\ RaceInit
    /\ WireInit /\ SentInit /\ BootInit /\ PlanInit

Next ==
    /\ WebhookNext
    /\ UNCHANGED <<negVars, ctxVars, runVars, raceVars, wireVars, sentVars,
                   bootVars, planVars>>

Spec == Init /\ [][Next]_vars

NextSeq ==
    /\ WebhookNextSeq
    /\ UNCHANGED <<negVars, ctxVars, runVars, raceVars, wireVars, sentVars,
                   bootVars, planVars>>

SpecSeq == Init /\ [][NextSeq]_vars
\* the handler's own steps run to their next await, and Redis settles every
\* command: ioredis is created with maxRetriesPerRequest 3.  The fetch of
\* wakeOpenClaw is given no signal and no timeout, so nothing in the adapter
\* makes it settle
RedisSettles ==
    \A p \in Procs :
        /\ WF_webhookVars(\E ok \in BOOLEAN : GetReturn(p, ok))
        /\ WF_webhookVars(\E ok \in BOOLEAN : SetReturn(p, ok))

SpecLive == Init /\ [][Next]_vars /\ RedisSettles

\* a downstream that settles every fetch
FetchSettles ==
    \A p \in Procs : WF_webhookVars(\E o \in FetchOutcomes : FetchReturn(p, o))

SpecLiveAnswered == SpecLive /\ FetchSettles

InitNeg ==
    /\ WebhookInit /\ ~redisConfigured /\ NegotiationInit /\ CtxInit /\ RunInit
    /\ RaceInit /\ WireInit /\ SentInit /\ BootInit /\ PlanInit

NextNeg ==
    /\ NegotiationNext
    /\ UNCHANGED <<webhookVars, raceVars, wireVars, sentVars, bootVars, planVars>>

SpecNeg == InitNeg /\ [][NextNeg]_vars

InitLead ==
    /\ WebhookInit /\ ~redisConfigured /\ NegotiationInit /\ RunInit
    /\ RaceInit /\ WireInit /\ SentInit /\ BootInit /\ PlanInit
    /\ leads = DiscoveredLeads
    /\ configured \in LeadConfigs
    /\ dailyDmCount = Undefined
    /\ lastDmDate = NoText

NextLead ==
    LeadNext /\ UNCHANGED <<webhookVars, raceVars, wireVars, bootVars, planVars>>

SpecLead == InitLead /\ [][NextLead]_vars

InitPoll == InitLead /\ configured = ConfigKeys

NextPoll ==
    PollNext /\ UNCHANGED <<webhookVars, raceVars, wireVars, bootVars, planVars>>

SpecPoll == InitPoll /\ [][NextPoll]_vars

NextSend ==
    SendNext /\ UNCHANGED <<webhookVars, raceVars, wireVars, bootVars, planVars>>

SpecSend == InitLead /\ [][NextSend]_vars

InitRace ==
    /\ WebhookInit /\ ~redisConfigured /\ NegotiationInit /\ RunInit
    /\ RaceInit /\ WireInit /\ SentInit /\ BootInit /\ PlanInit
    /\ leads = ContactedLeads
    /\ configured \in {ConfigKeys, ConfigKeys \ {"campaign"}}
    /\ dailyDmCount = Undefined
    /\ lastDmDate = NoText

NextRace ==
    /\ RaceNext
    /\ UNCHANGED <<webhookVars, negVars, runVars, wireVars, sentVars, bootVars, planVars>>

SpecRace == InitRace /\ [][NextRace]_vars

NextParse ==
    /\ ParseNext
    /\ UNCHANGED <<webhookVars, raceVars, wireVars, sentVars, bootVars, planVars>>

SpecParse == InitNeg /\ [][NextParse]_vars

NextWire ==
    /\ WireNext
    /\ UNCHANGED <<webhookVars, negVars, ctxVars, runVars, raceVars, sentVars,
                   bootVars, planVars>>

SpecWire == InitNeg /\ [][NextWire]_vars

\* the store before the first bootstrap, or as earlier entrypoints left it
InitBoot ==
    /\ WebhookInit /\ ~redisConfigured /\ NegotiationInit /\ RunInit
    /\ RaceInit /\ WireInit /\ SentInit /\ BootInit /\ PlanInit
    /\ \/ /\ leads = << >>
          /\ configured = {}
          /\ dailyDmCount = Undefined
          /\ lastDmDate = NoText
       \/ /\ leads = ContactedLeads
          /\ configured \in {ConfigKeys, ConfigKeys \cup {"openclaw"}}
          /\ dailyDmCount = 1
          /\ lastDmDate = LeadDays[1]

NextBoot ==
    /\ BootNext
    /\ UNCHANGED <<webhookVars, negVars, runVars, raceVars, wireVars, sentVars,
                   planVars>>

SpecBoot == InitBoot /\ [][NextBoot]_vars

InitPlan ==
    /\ WebhookInit /\ ~redisConfigured /\ NegotiationInit /\ RunInit
    /\ RaceInit /\ WireInit /\ SentInit /\ BootInit /\ PlanInit
    /\ leads = << >>
    /\ configured \in {ConfigKeys, ConfigKeys \ {"campaign"}}
    /\ dailyDmCount = 0
    /\ lastDmDate = LeadDays[1]

NextPlan ==
    /\ PlanNext
    /\ UNCHANGED <<webhookVars, negVars, runVars, raceVars, wireVars, sentVars,
                   bootVars>>

SpecPlan == InitPlan /\ [][NextPlan]_vars

(***************************************************************************)
(* Properties of the webhook adapter.                                      *)
(***************************************************************************)
InFlight == {"redis_get", "redis_set", "fetch"}

\* the request passes the body, header and signature checks
Genuine(r) == ~r.bodyEmpty /\ r.missing = "none" /\ r.sigValid

Has(tr, step) == \E i \in 1..Len(tr) : tr[i] = step

Before(tr, a, b) ==
    \A j \in 1..Len(tr) : tr[j] = b => \E i \in 1..(j - 1) : tr[i] = a

LastStep(tr) == IF tr = << >> THEN "" ELSE tr[Len(tr)]

Answered == lastResp.pc = "done"

\* the dedupe round trip of a request has ended (or was never needed)
DedupeSettled(tr) ==
    \E i \in 1..Len(tr) : tr[i] \in {"no_redis", "get_err", "set_ok", "set_err"}

\* C1 (as claimed): with the store available and deliveries arriving one
\* after another, once the provider holds a 204 for a verified
\* message.received event id, exactly one downstream run (lead transition)
\* has happened for it and at most one dispatch was attempted.
C1_ExactlyOneTransition ==
    ( /\ Answered
      /\ Genuine(lastResp.req)
      /\ lastResp.req.event.event_type = "message.received"
      /\ lastResp.req.event.event_id # ""
      /\ lastResp.status = 204
      /\ AllIdle
      /\ redisConfigured /\ ~redisErrored /\ lastResp.key \notin expired )
    => /\ agentRuns[lastResp.key] = 1
       /\ wakeCalls[lastResp.key] <= 1

\* C2 (as claimed): with the store available, whatever the interleaving of
\* concurrent handlers, at most one delivery per event id passes the dedupe
\* gate and is dispatched.
C2_AtMostOneDispatch ==
    \A k \in Keys :
        (redisConfigured /\ ~redisErrored /\ k \notin expired)
        => wakeCalls[k] <= 1

\* C3: the dedupe store is consulted only after the signature has verified
\* and before any dispatch; a request with an empty body, a missing header or
\* a bad signature never reaches the store or the dispatch.
C3_DedupeAfterVerify ==
    /\ \A p \in Procs : h[p].pc \in InFlight => Genuine(h[p].req)
    /\ (Answered /\ ~Genuine(lastResp.req)) =>
          /\ Len(lastResp.trace) = 1
          /\ lastResp.key = ""
          /\ lastResp.status \in {400, 401}
    /\ \A tr \in {h[p].trace : p \in Procs} \cup {lastResp.trace} :
          /\ \A s \in {"no_redis", "get_hit", "get_miss", "get_err"} :
                Before(tr, "verified", s)
          /\ Has(tr, "wake_call") => DedupeSettled(tr)
          /\ \A s \in {"no_redis", "get_err", "set_ok", "set_err"} :
                \A i \in 1..Len(tr) : \A j \in 1..Len(tr) :
                    (tr[i] = s /\ tr[j] = "wake_call") => i < j

C3_Witness ==
    /\ Answered /\ lastResp.status = 401
    /\ lastResp.req.event.event_id = "evt_1"
    /\ store = {} /\ wakeCalls["agentmail:event:evt_1"] = 0
    /\ \E p \in Procs : h[p].pc = "fetch"

\* C4: every request gets exactly one response: 400 for an empty body or a
\* missing Svix header, 401 for a bad signature, 204 for a duplicate, an
\* ignored event type or a successful dispatch, 500 when dispatch throws.
C4_StatusCodes ==
    /\ responses + Cardinality({p \in Procs : h[p].pc \in InFlight})
          = metrics.webhooksReceived
    /\ \A p \in Procs : h[p].responses = 0
    /\ Answered =>
          /\ lastResp.responses = 1
          /\ lastResp.status =
               IF lastResp.req.bodyEmpty \/ lastResp.req.missing # "none"
               THEN 400
               ELSE IF ~lastResp.req.sigValid THEN 401
               ELSE IF LastStep(lastResp.trace) = "wake_failed" THEN 500
               ELSE 204
          /\ Genuine(lastResp.req) =>
               LastStep(lastResp.trace) \in
                   {"duplicate", "ignored", "wake_ok", "wake_failed"}

C4_Witness ==
    /\ Answered /\ lastResp.status = 500
    /\ LastStep(lastResp.trace) = "wake_failed"
    /\ responses = 2

\* C5: when the store errors during the check, or no store is configured,
\* the event counts as not a duplicate, is dispatched anyway, and the answer
\* follows the dispatch result; the store never causes a 500.
StoreUnavailable(tr) ==
    Has(tr, "no_redis") \/ Has(tr, "get_err") \/ Has(tr, "set_err")

C5_StoreFailureDegrades ==
    /\ \A p \in Procs :
          (h[p].trace # << >> /\ StoreUnavailable(h[p].trace)) =>
              /\ h[p].pc = "fetch"
              /\ h[p].req.event.event_type = "message.received"
    /\ (Answered /\ StoreUnavailable(lastResp.trace)) =>
          IF lastResp.req.event.event_type = "message.received"
          THEN /\ Has(lastResp.trace, "wake_call")
               /\ \/ lastResp.status = 204
                     /\ LastStep(lastResp.trace) = "wake_ok"
                  \/ lastResp.status = 500
                     /\ LastStep(lastResp.trace) = "wake_failed"
          ELSE lastResp.status = 204

C5_Witness ==
    /\ Answered /\ redisConfigured
    /\ Has(lastResp.trace, "get_err")
    /\ lastResp.status = 204
    /\ agentRuns[lastResp.key] = 1

\* C6: only message.received events are dispatched; a verified event of any
\* other kind is acknowledged with 204 and never reaches wakeOpenClaw.
C6_OnlyMessageReceived ==
    /\ \A p \in Procs :
          h[p].pc = "fetch" => h[p].req.event.event_type = "message.received"
    /\ \A e \in Events :
          (e.event_type # "message.received" /\ e.event_id # "") =>
              /\ wakeCalls[DedupeKey(e.event_id)] = 0
              /\ agentRuns[DedupeKey(e.event_id)] = 0
    /\ ( /\ Answered /\ Genuine(lastResp.req)
         /\ lastResp.req.event.event_type # "message.received" )
       => /\ lastResp.status = 204
          /\ ~Has(lastResp.trace, "wake_call")

C6_Witness ==
    /\ Answered /\ Genuine(lastResp.req)
    /\ lastResp.req.event.event_type = "message.sent"
    /\ LastStep(lastResp.trace) = "ignored"
    /\ lastResp.status = 204

\* C7: a non-duplicate message.received event is acknowledged with 204 only
\* after the dedupe round trip and the dispatch call have both completed and
\* the dispatch succeeded; nothing is answered while a call is outstanding.
C7_AckAfterAwaits ==
    /\ \A p \in Procs :
          h[p].pc \in InFlight => (h[p].status = 0 /\ h[p].responses = 0)
    /\ ( /\ Answered /\ Genuine(lastResp.req)
         /\ lastResp.req.event.event_type = "message.received"
         /\ lastResp.status = 204
         /\ LastStep(lastResp.trace) # "duplicate" )
       => /\ LastStep(lastResp.trace) = "wake_ok"
          /\ Before(lastResp.trace, "wake_call", "wake_ok")
          /\ DedupeSettled(lastResp.trace)

C7_Witness ==
    /\ Answered /\ lastResp.status = 204
    /\ lastResp.trace =
         <<"verified", "get_miss", "set_ok", "wake_call", "wake_ok">>

(***************************************************************************)
(* Properties of the negotiation ladder.                                   *)
(***************************************************************************)
Decided == stage = "decided"

HasRate(r) == r.rateUsd # Undefined

\* the eleven rules of the ladder, as documented
RuleMatches(i, r, c) ==
    LET g == c.guardrails
        e == g.escalation
    IN CASE i = 1 -> r.intent = "not_interested"
         [] i = 2 -> HasRate(r) /\ r.rateUsd > g.maxUsdPerDeal
         [] i = 3 -> HasRate(r)
                     /\ r.rateUsd * 100 > g.maxUsdPerDeal * (100 + e.aboveMaxPct)
         [] i = 4 -> r.asksExclusivity /\ e.asksExclusivity
         [] i = 5 -> r.asksWhitelisting /\ e.asksWhitelisting
         [] i = 6 -> r.usage = NoText /\ e.unclearUsage
                     /\ r.intent = "sends_rate"
         [] i = 7 -> HasRate(r)
                     /\ \E k \in 1..Len(c.offerMenu) :
                           /\ c.offerMenu[k].baselineUsd # Undefined
                           /\ r.rateUsd <= c.offerMenu[k].baselineUsd
         [] i = 8 -> HasRate(r) /\ r.rateUsd <= g.maxUsdPerDeal
         [] i = 9 -> r.intent = "needs_info"
         [] i = 10 -> r.intent = "interested"
         [] OTHER -> TRUE

RuleActions == <<"pass", "escalate", "escalate", "escalate", "escalate",
                 "clarify", "accept", "counter", "clarify", "clarify",
                 "clarify">>

RuleRationales == <<"declined", "exceeds_max", "exceeds_threshold",
                    "exclusivity", "whitelisting", "usage_unclear",
                    "within_baseline", "above_baseline", "needs_info",
                    "interested", "unclear">>

FirstMatchingRule(r, c) ==
    CHOOSE i \in 1..11 :
        RuleMatches(i, r, c) /\ \A j \in 1..(i - 1) : ~RuleMatches(j, r, c)

\* C8: decide_next_logic returns the action (and the rationale) of the first
\* rule of the 11-rule ladder that matches; no later rule overrides it.
C8_FirstMatchWins ==
    Decided =>
        LET first == FirstMatchingRule(parsedReply, activeCampaign)
        IN /\ decision.action = RuleActions[first]
           /\ Len(decision.rationale) = 1
           /\ decision.rationale[1].msg = RuleRationales[first]

C8_Witness ==
    /\ Decided
    /\ parsedReply.intent = "needs_info"
    /\ parsedReply.asksExclusivity
    /\ activeCampaign.guardrails.escalation.asksExclusivity
    /\ RuleMatches(7, parsedReply, activeCampaign)
    /\ decision.action = "escalate"

\* C9: a reply with intent not_interested is decided pass whatever its rate,
\* flags or campaign; a text holding a negative-intent phrase (with or
\* without a dollar amount) is parsed to not_interested and decided pass.
C9_NotInterestedPasses ==
    /\ (Decided /\ parsedReply.intent = "not_interested")
          => decision.action = "pass"
    /\ ( /\ entry = "agentmail_ingest_event"
         /\ IncludesAny(toLowerCase(msgText), NegativePhrases) )
       => /\ parsedReply.intent = "not_interested"
          /\ parsedReply.raw = msgText
          /\ Decided => decision.action = "pass"

C9_Witness ==
    /\ Decided
    /\ msgText = "Thanks but not interested, my rate is normally $5000"
    /\ parsedReply.rateUsd # Undefined
    /\ activeCampaign.guardrails.maxUsdPerDeal = 100000
    /\ decision.action = "pass"

\* the case of C10: ceiling 5000, escalation percentage 20, rate 5200, the
\* creator has not declined and asks neither exclusivity nor whitelisting
C10_Case ==
    /\ Decided
    /\ activeCampaign.guardrails.maxUsdPerDeal = 500000
    /\ activeCampaign.guardrails.escalation.aboveMaxPct = 20
    /\ parsedReply.rateUsd = 520000
    /\ parsedReply.intent # "not_interested"
    /\ ~parsedReply.asksExclusivity
    /\ ~parsedReply.asksWhitelisting

\* C10 (as claimed): in that case the reply is not escalated; the ladder
\* falls through to rules 7/8 and returns accept or counter.
C10_NotEscalated ==
    C10_Case => decision.action \in {"accept", "counter"}

\* C10 (amended): in that case rule 2 fires, since 5200 > 5000: the decision
\* is escalate and rules 7/8 are not reached.
C10_EscalatedByRule2 ==
    C10_Case =>
        /\ decision.action = "escalate"
        /\ decision.rationale =
             <<Rationale("exceeds_max", 520000, 500000, "")>>

C10_Witness ==
    /\ C10_Case
    /\ decision.action = "escalate"
    /\ parsedReply.intent = "sends_rate"

\* the template of the rationale the decision carries
FiredRule == decision.rationale[1].msg

NoRuleUpTo(n, r, c) == \A j \in 1..n : ~RuleMatches(j, r, c)

\* C11: the ceiling comparison of rule 2 is strict: the rule-2 escalation is
\* returned exactly when the creator has not declined and rate > maxUsdPerDeal;
\* a rate equal to maxUsdPerDeal is escalated neither by rule 2 nor by rule 3
\* and is decided by a later rule.
C11_StrictCeiling ==
    Decided =>
        LET max == activeCampaign.guardrails.maxUsdPerDeal
        IN /\ FiredRule = "exceeds_max"
                <=> /\ parsedReply.intent # "not_interested"
                    /\ HasRate(parsedReply)
                    /\ parsedReply.rateUsd > max
           /\ (parsedReply.intent # "not_interested" /\ parsedReply.rateUsd = max)
                => FiredRule \in {RuleRationales[k] : k \in 4..11}

C11_Witness ==
    /\ Decided
    /\ parsedReply.intent = "counter_offer"
    /\ parsedReply.rateUsd = 500000
    /\ activeCampaign.guardrails.maxUsdPerDeal = 500000
    /\ decision.action = "counter"

\* offers of the menu with a baseline the reply's rate does not exceed
WithinBaseline(r, c) ==
    {k \in 1..Len(c.offerMenu) :
        /\ HasRate(r)
        /\ c.offerMenu[k].baselineUsd # Undefined
        /\ r.rateUsd <= c.offerMenu[k].baselineUsd}

\* C12: when rules 1-6 do not match and the rate is within the baseline of
\* some offer, the decision is accept and it references the first offer, in
\* menu order, whose baseline is >= the rate; an accept always references an
\* offer that has a baseline.
C12_AcceptFirstWithinBaseline ==
    Decided =>
        LET r == parsedReply
            c == activeCampaign
            within == WithinBaseline(r, c)
        IN /\ (NoRuleUpTo(6, r, c) /\ within # {})
                => LET o == c.offerMenu[CHOOSE k \in within :
                                            \A j \in within : k <= j]
                   IN /\ decision.action = "accept"
                      /\ decision.rationale =
                           <<Rationale("within_baseline", r.rateUsd,
                                       o.baselineUsd, o.key)>>
                      /\ decision.replyDraft.key = o.key
           /\ decision.action = "accept"
                => /\ within # {}
                   /\ decision.rationale[1].b # Undefined
                   /\ \E k \in within :
                         c.offerMenu[k].key = decision.rationale[1].key

C12_Witness ==
    /\ Decided
    /\ parsedReply.rateUsd = 45000
    /\ Len(activeCampaign.offerMenu) = 2
    /\ activeCampaign.offerMenu[1].key = "bundle"
    /\ activeCampaign.offerMenu[2].key = "ugc_video"
    /\ decision.action = "accept"
    /\ decision.replyDraft.key = "bundle"

\* rule 8 is the first rule that matches
CounterCase ==
    /\ Decided
    /\ NoRuleUpTo(7, parsedReply, activeCampaign)
    /\ RuleMatches(8, parsedReply, activeCampaign)

\* the counter-offer is the offer at position k of the menu
CountersWith(k) ==
    LET o == activeCampaign.offerMenu[k]
    IN decision.counterOffer =
         [offerKey |-> o.key, rateUsd |-> o.baselineUsd, usage |-> o.usage]

\* position k of the menu holds an offer with the highest baseline
HighestBaseline(k) ==
    LET menu == activeCampaign.offerMenu
    IN /\ menu[k].baselineUsd # Undefined
       /\ \A j \in 1..Len(menu) : menu[j].baselineUsd <= menu[k].baselineUsd

\* C13: when rule 8 is the first rule that matches, the decision is counter
\* and the counter-offer's key, rate and usage are those of the offer with
\* the highest baseline of the menu, whatever the order of the menu.
C13_CounterHighestBaseline ==
    CounterCase =>
        /\ decision.action = "counter"
        /\ \E k \in 1..Len(activeCampaign.offerMenu) :
              HighestBaseline(k) /\ CountersWith(k)

\* the same, for the menus in which at least one offer has a baseline
CounterHighestWhenBaselined ==
    ( /\ CounterCase
      /\ \E k \in 1..Len(activeCampaign.offerMenu) :
            activeCampaign.offerMenu[k].baselineUsd # Undefined )
    => /\ decision.action = "counter"
       /\ \E k \in 1..Len(activeCampaign.offerMenu) :
             HighestBaseline(k) /\ CountersWith(k)

\* C14: a requested exclusivity (whitelisting) the campaign escalates on makes
\* the decision escalate unless the creator declined, whatever the rate; when
\* the campaign's switch is off the flag does not change the decision.
C14_FlagsEscalate ==
    Decided =>
        LET r == parsedReply
            c == activeCampaign
            e == c.guardrails.escalation
        IN /\ ( /\ r.intent # "not_interested"
                /\ \/ r.asksExclusivity /\ e.asksExclusivity
                   \/ r.asksWhitelisting /\ e.asksWhitelisting )
              => decision.action = "escalate"
           /\ ~e.asksExclusivity
              => decision = decide_next_logic(
                               [r EXCEPT !.asksExclusivity = FALSE], c, TheLead)
           /\ ~e.asksWhitelisting
              => decision = decide_next_logic(
                               [r EXCEPT !.asksWhitelisting = FALSE], c, TheLead)

C14_Witness ==
    /\ Decided
    /\ entry = "agentmail_ingest_event"
    /\ msgText = "my rate is normally $5000 exclusive deal"
    /\ parsedReply.asksExclusivity
    /\ activeCampaign.guardrails.escalation.asksExclusivity
    /\ WithinBaseline(parsedReply, activeCampaign) # {}
    /\ ~RuleMatches(2, parsedReply, activeCampaign)
    /\ decision.action = "escalate"

\* C15: an accept is given only for a rate <= maxUsdPerDeal; a counter-offer
\* rate is <= maxUsdPerDeal and strictly below the creator's rate; a reply
\* with rate > maxUsdPerDeal is never answered accept or counter.
C15_WithinBudget ==
    Decided =>
        LET max == activeCampaign.guardrails.maxUsdPerDeal
        IN /\ decision.action = "accept"
                => HasRate(parsedReply) /\ parsedReply.rateUsd <= max
           /\ (decision.action = "counter"
                 /\ decision.counterOffer.rateUsd # Undefined)
                => /\ decision.counterOffer.rateUsd <= max
                   /\ decision.counterOffer.rateUsd < parsedReply.rateUsd
           /\ (HasRate(parsedReply) /\ parsedReply.rateUsd > max)
                => decision.action \notin {"accept", "counter"}

C15_Witness ==
    /\ Decided
    /\ parsedReply.intent = "accepts"
    /\ parsedReply.rateUsd = 90000
    /\ activeCampaign.guardrails.maxUsdPerDeal = 80000
    /\ WithinBaseline(parsedReply, activeCampaign) # {}
    /\ decision.action = "escalate"

\* C16: every decision, whichever rule produced it, carries a non-empty
\* list of non-empty rationale entries.
C16_RationaleNonEmpty ==
    Decided =>
        /\ Len(decision.rationale) >= 1
        /\ \A k \in 1..Len(decision.rationale) : decision.rationale[k].msg # ""

C16_Witness ==
    /\ Decided
    /\ parsedReply.intent = "not_interested"
    /\ decision.action = "pass"
    /\ decision.rationale = <<Rationale("declined", Undefined, Undefined, "")>>

\* C17: decide_next_logic returns a reply draft exactly for accept, counter
\* and clarify; agentmail_send_reply, given a pass or escalate decision of
\* the engine, hands nothing to AgentMail, returns sent = false and writes
\* no state.
C17_DraftOnlyForReplies ==
    /\ Decided
         => (decision.replyDraft # NoDraft
               <=> decision.action \in {"accept", "counter", "clarify"})
    /\ (stage = "replied" /\ decision.action \in {"pass", "escalate"})
         => /\ sendResult = NoSend
            /\ outbox = << >>
            /\ leadWrites = 1
            /\ leads = ReplaceLead(leadsRead, resultLead.xUserId, resultLead)

C17_Witness ==
    /\ stage = "replied"
    /\ decision.action = "escalate"
    /\ ~sendResult.sent
    /\ outbox = << >>

(***************************************************************************)
(* Properties of the lead store.                                           *)
(***************************************************************************)
Ingested == stage = "decided" /\ entry = "agentmail_ingest_event"

\* the lead status the documentation gives for each action
DocumentedStatus ==
    [a \in {"accept", "pass", "escalate", "counter", "clarify"} |->
        CASE a = "accept" -> "won"
          [] a = "pass" -> "lost"
          [] a = "escalate" -> "escalated"
          [] OTHER -> "negotiating"]

\* C18: for an event matched to a lead, agentmail_ingest_event writes the
\* lead store exactly once (and not before the decision); the written lead
\* has the status that belongs to the action and the thread id of the
\* message, its other fields are kept, and it is the lead returned.
C18_OneWriteWithStatus ==
    /\ Ingested =>
         LET before == leadsRead[matched]
         IN /\ leadWrites = 1
            /\ resultLead =
                 [before EXCEPT !.status = DocumentedStatus[decision.action],
                                !.threadId = message.thread_id]
            /\ \E i \in 1..Len(leads) : leads[i].xUserId = before.xUserId
            /\ \A i \in 1..Len(leads) :
                  leads[i].xUserId = before.xUserId => leads[i] = resultLead
    /\ (entry = "agentmail_ingest_event" /\ stage \in {"parsed", "failed"})
         => leadWrites = 0 /\ leads = leadsRead

C18_Witness ==
    /\ Ingested
    /\ leadsRead[matched].status = "email_sent"
    /\ leadsRead[matched].threadId = "thread_1001"
    /\ message = [from |-> "other@mail.test", thread_id |-> "thread_1001"]
    /\ decision.action = "pass"
    /\ leads[1].status = "lost"
    /\ leads[2] = leadsRead[2]

Terminal == {"won", "lost", "escalated"}

\* position j of the next store holds the lead that is now at position i
SameLead(i, j) == leads'[j].xUserId = leads[i].xUserId

\* C19: once the stored status of a lead is won, lost or escalated, no step
\* of agentmail_ingest_event, ingest_replies_x or send_outreach changes it.
C19_TerminalStays ==
    [][\A i \in 1..Len(leads) :
          leads[i].status \in Terminal
             => \A j \in 1..Len(leads') :
                   SameLead(i, j) => leads'[j].status = leads[i].status]_vars

\* the place of a status in new -> queued -> sent -> replied -> negotiating
\* -> closed
Rank(status) ==
    CASE status = "new" -> 0
      [] status = "queued" -> 1
      [] status \in {"dm_sent", "email_sent", "public_replied"} -> 2
      [] status = "replied" -> 3
      [] status = "negotiating" -> 4
      [] OTHER -> 5

\* C20: no write to the lead store puts an earlier stage over a later one:
\* the rank of a stored lead's status never decreases.
C20_ForwardOnly ==
    [][\A i \in 1..Len(leads) :
          \A j \in 1..Len(leads') :
             SameLead(i, j) =>
                Rank(leads'[j].status) >= Rank(leads[i].status)]_vars

\* the stored lead l is reached by the message: same sender address or same
\* thread
Reaches(msg, l) ==
    \/ l.email # NoText /\ l.email = msg.from
    \/ l.threadId # NoText /\ l.threadId = msg.thread_id

Unmatched ==
    /\ entry = "agentmail_ingest_event"
    /\ stage # "idle"
    /\ \A i \in 1..Len(leadsRead) : ~Reaches(message, leadsRead[i])

\* C21: when no stored lead has the sender address or the thread id of the
\* event, agentmail_ingest_event does not throw (even without a campaign):
\* it returns the parsed reply with no lead and no decision, and the lead
\* store is not written.
C21_UnmatchedReturnsParsed ==
    /\ Unmatched =>
         /\ stage = "unmatched"
         /\ parsedReply = [parseReplyText(msgText) EXCEPT !.raw = msgText]
         /\ resultLead = NoLead
         /\ decision = NoDecision
         /\ leadWrites = 0
         /\ leads = leadsRead
    /\ stage = "unmatched" => Unmatched

C21_Witness ==
    /\ stage = "unmatched"
    /\ message = [from |-> "other@mail.test", thread_id |-> "thread_1001"]
    /\ "campaign" \notin configured
    /\ parsedReply.intent = "sends_rate"
    /\ parsedReply.rateUsd = 90000
    /\ leads = DiscoveredLeads

LeadIds(ls) == {ls[i].xUserId : i \in 1..Len(ls)}

\* call p hands its array to setState in this step
Writes(p) == runs[p].pc = "parsed" /\ runs'[p].pc = "decided"

\* C22: agentmail_ingest_event neither creates nor deletes a lead, and a
\* write of it changes no stored lead but the one matched to the event.
C22_OnlyMatchedLeadWritten ==
    [][\A p \in Runs :
          Writes(p) =>
             /\ Len(leads') = Len(leads)
             /\ LeadIds(leads') = LeadIds(leads)
             /\ \A i \in 1..Len(leads) :
                   leads[i].xUserId # runs'[p].lead.xUserId
                      => leads'[i] = leads[i]]_vars

\* the same for calls that run one after the other
IngestKeepsOtherLeads ==
    [][(stage = "parsed" /\ stage' = "decided") =>
          /\ Len(leads') = Len(leads)
          /\ LeadIds(leads') = LeadIds(leads)
          /\ \A i \in 1..Len(leads) :
                leads[i].xUserId # resultLead'.xUserId
                   => leads'[i] = leads[i]]_vars

\* the lead identifiers of the store are those of the start
LeadIdsKept == LeadIds(leads) = LeadIds(ContactedLeads)

\* agentmail_ingest_event has returned a result
IngestReturned ==
    entry = "agentmail_ingest_event" /\ stage \in {"decided", "unmatched"}

\* C23: every agentmail_ingest_event call that returns, with or without a
\* matched lead, returns a result with a non-empty rationale list.
C23_RationaleForEveryEvent ==
    IngestReturned => decision.rationale # << >>

\* the same for events matched to a lead
RationaleWhenMatched ==
    Ingested => decision.rationale # << >>

(***************************************************************************)
(* Properties of decide_next_logic and parseReplyText as functions.        *)
(***************************************************************************)
\* the lead the running entrypoint handed to decide_next_logic
DecidedLead == IF entry = "decide_next" THEN TheLead ELSE leadsRead[matched]

IntentOrder ==
    << [intent |-> "not_interested", phrases |-> NegativePhrases],
       [intent |-> "interested", phrases |-> InterestPhrases],
       [intent |-> "sends_rate", phrases |-> RatePhrases],
       [intent |-> "needs_info", phrases |-> InfoPhrases],
       [intent |-> "accepts", phrases |-> AcceptPhrases],
       [intent |-> "counter_offer", phrases |-> CounterPhrases] >>

\* the categories with a keyword in the lowered text
MatchingCategories(low) ==
    {k \in 1..Len(IntentOrder) : IncludesAny(low, IntentOrder[k].phrases)}

FirstCategoryIntent(low) ==
    IF MatchingCategories(low) = {} THEN "other"
    ELSE IntentOrder[CHOOSE k \in MatchingCategories(low) :
                        \A j \in MatchingCategories(low) : k <= j].intent

ParsedText == entry = "parseReplyText" /\ stage = "done"

\* C25: parseReplyText returns a result for every text, with the intent of
\* the first keyword category (in the fixed order) that has a keyword in
\* the text, or other when none has; asksExclusivity and asksWhitelisting
\* depend on their own keywords only.
C25_FirstCategoryWins ==
    ParsedText =>
       \A low \in {toLowerCase(msgText)} :
          /\ parsedReply.intent = FirstCategoryIntent(low)
          /\ parsedReply.asksExclusivity
                = IncludesAny(low, {"exclusiv", "only work with",
                                    "no competitors"})
          /\ parsedReply.asksWhitelisting
                = IncludesAny(low, {"whitelist", "paid ads", "ad rights",
                                    "boost"})

C25_Witness ==
    /\ ParsedText
    /\ msgText = "Sounds good my rate is $900"
    /\ parsedReply.intent = "interested"
    /\ parsedReply.rateUsd = 90000
    /\ ~parsedReply.asksExclusivity
    /\ ~parsedReply.asksWhitelisting

(***************************************************************************)
(* Properties of the signature check.                                      *)
(***************************************************************************)
Handled == wire.pc = "handled"

\* the request passed step 3 of the handler
PassedVerification == Handled /\ wire.status = 0

\* the presented signature was made with the shared secret over the
\* presented id and timestamp and the given bytes
SignedOver(bytes) ==
    wire.headers.signature
        = Sign(SigningSecret, wire.headers.id, wire.headers.timestamp, bytes)

\* C26: a body passes verification exactly when the presented signature was
\* made with the shared secret over the message id, the timestamp and the
\* very bytes received; a body with one byte changed after signing is
\* answered 401.
C26_ExactBytesVerified ==
    Handled =>
       /\ PassedVerification <=> SignedOver(wire.sent)
       /\ wire.sent # wire.signed => wire.status = 401

\* the same up to the decoding of the body: the text received is the text
\* signed
SameTextVerified ==
    Handled =>
       (PassedVerification <=>
           \E bytes \in {wire.signed} :
               /\ SignedOver(bytes)
               /\ toStringUtf8(wire.sent) = toStringUtf8(bytes))

\* a changed body whose bytes are well-formed UTF-8 is answered 401
WellFormedChangeRejected ==
    (Handled /\ wire.sent # wire.signed
        /\ EncodeUtf8(toStringUtf8(wire.sent)) = wire.sent)
       => wire.status = 401

(***************************************************************************)
(* Properties of send_outreach.                                            *)
(***************************************************************************)
\* this step is a send_outreach call that ran its loop
SendsOutreach == stage = "idle" /\ stage' = "done" /\ entry' = "send_outreach"

\* the DMs the call reports as sent
DmsReported(results) ==
    Cardinality({k \in 1..Len(results) :
                    results[k].channel = "x_dm" /\ results[k].success})

\* the stored lead with that handle is as it was
LeadKept(handle) ==
    \A i \in 1..Len(leads) :
        leads[i].handle = handle =>
            \E j \in 1..Len(leads') : leads'[j] = leads[i]

BootReturned == boot.pc = "returned"

\* C28: x_outreach_bootstrap returns ready = true exactly when it collected
\* no error, and exactly then it has written campaign, x, agentmail,
\* openclaw, leads, dailyDmCount and lastDmDate; a call that ends with an
\* error (payload, token, inbox or webhook) writes no state key.
C28_PersistOnlyOnSuccess ==
    /\ [](BootReturned =>
            /\ boot.ready <=> boot.errors = << >>
            /\ boot.ready <=> boot.written = BootKeys
            /\ ~boot.ready => boot.written = {}
            /\ boot.ready =>
                 /\ {"campaign", "x", "agentmail", "openclaw"} \subseteq configured
                 /\ leads = << >>
                 /\ dailyDmCount = 0
                 /\ lastDmDate # NoText)
    /\ [][(boot'.pc = "returned" /\ boot'.ready) \/ UNCHANGED ctxVars]_vars

C28_Witness ==
    /\ BootReturned
    /\ ~boot.ready
    /\ boot.inboxId
    /\ boot.errors = <<"Failed to create AgentMail webhook">>
    /\ boot.written = {}
    /\ leads = ContactedLeads
    /\ dailyDmCount = 1

(***************************************************************************)
(* Properties of plan_outreach.                                            *)
(***************************************************************************)
Planned == plan.pc = "done"

\* the lead's DMs appear open
DmsAppearOpen(lead) ==
    dmsLikelyOpen(lead) /\ ~includes(lead.bio, "protected")

\* the documented routing: e-mail, else DM, else a draft for a human
DocumentedChannel(lead, outreach) ==
    IF EmailUsable(lead, outreach) THEN "email"
    ELSE IF DmsAppearOpen(lead) THEN "x_dm"
    ELSE "x_reply"

\* the input leads in status new or queued, and the others, in input order
OpenLeads == SelectSeq(plan.leads, LAMBDA l : l.status \in {"new", "queued"})

OtherLeads == SelectSeq(plan.leads, LAMBDA l : l.status \notin {"new", "queued"})

\* every input lead is planned (as queued) when new or queued and skipped
\* otherwise, and the result holds nothing else
PlanPartition ==
    Planned =>
       /\ Len(plan.planned) = Len(OpenLeads)
       /\ \A k \in 1..Len(plan.planned) :
             plan.planned[k].lead = [OpenLeads[k] EXCEPT !.status = "queued"]
       /\ Len(plan.skipped) = Len(OtherLeads)
       /\ \A k \in 1..Len(plan.skipped) :
             plan.skipped[k].lead = OtherLeads[k]

\* C29: plan_outreach gives each lead in status new or queued the channel of
\* the documented priority (e-mail when the lead has an address and e-mail
\* is enabled, else x_dm when its DMs appear open, else x_reply), skips
\* the leads in any other status, and puts every input lead in exactly one
\* of planned and skipped.
C29_DocumentedRouting ==
    /\ PlanPartition
    /\ Planned =>
         \A k \in 1..Len(plan.planned) :
            plan.planned[k].channel
               = DocumentedChannel(plan.planned[k].lead, plan.outreach)

(***************************************************************************)
(* Properties of interleaved agentmail_ingest_event calls.                 *)
(***************************************************************************)
\* C30: agentmail_ingest_event calls are not serialized.  A call fails for
\* a missing campaign only, never because another call is in progress; and
\* after each write the store is the array the writing call read with its
\* own lead replaced, so that the status stored is the one written last and
\* what another call wrote in between is gone.
C30_LastWriteWins ==
    \A p \in Runs :
       /\ runs[p].pc = "failed" => "campaign" \notin configured
       /\ lastWriter = p =>
            /\ runs[p].pc = "decided"
            /\ leads = ReplaceLead(runs[p].leadsRead, runs[p].lead.xUserId,
                                   runs[p].lead)

\* both calls read the store before either wrote, both returned a decision
\* for lead 1001, and the store holds the status of the second write
C30_Witness ==
    /\ runs[1].pc = "decided" /\ runs[2].pc = "decided"
    /\ runs[1].leadsRead = ContactedLeads
    /\ runs[2].leadsRead = ContactedLeads
    /\ runs[1].lead.xUserId = "1001" /\ runs[2].lead.xUserId = "1001"
    /\ runs[1].lead.status = "lost"
    /\ runs[2].lead.status = "negotiating"
    /\ lastWriter = 2
    /\ leads[1].status = "negotiating"

(***************************************************************************)
(* Properties of the threshold rule and of the extracted rate.             *)
(***************************************************************************)
\* the rate of r is above maxUsdPerDeal * (1 + aboveMaxPct/100)
AboveThreshold(r, g) ==
    /\ HasRate(r)
    /\ r.rateUsd * 100 > g.maxUsdPerDeal * (100 + g.escalation.aboveMaxPct)

\* C31: rule 3 of the ladder never fires: no decision carries the
\* rule-3 rationale, and a rate above maxUsdPerDeal * (1 + aboveMaxPct/100)
\* of a creator who has not declined is escalated by rule 2.
C31_Rule3Unreachable ==
    Decided =>
        /\ FiredRule # "exceeds_threshold"
        /\ (/\ parsedReply.intent # "not_interested"
            /\ AboveThreshold(parsedReply, activeCampaign.guardrails))
              => FiredRule = "exceeds_max"

\* a rate of 6200 against a ceiling of 5000 and 20 percent: above the
\* threshold of 6000, escalated by rule 2
C31_Witness ==
    /\ Decided
    /\ parsedReply.intent # "not_interested"
    /\ parsedReply.rateUsd = 620000
    /\ activeCampaign.guardrails.maxUsdPerDeal = 500000
    /\ activeCampaign.guardrails.escalation.aboveMaxPct = 20
    /\ AboveThreshold(parsedReply, activeCampaign.guardrails)
    /\ FiredRule = "exceeds_max"

\* C32: whenever parseReplyText returns a rate it is strictly positive, and
\* a text without a currency-symbol or currency-word amount yields no rate.
C32_RatePositive ==
    ParsedText =>
        /\ HasRate(parsedReply) => parsedReply.rateUsd > 0
        /\ (/\ ~includes(msgText, "$")
            /\ ~IncludesAny(toLowerCase(msgText), CurrencyWords))
              => ~HasRate(parsedReply)

\* the rate returned is never negative, it is absent for a text without a
\* currency symbol and without a currency word, and it is zero only when
\* the amount written is zero
RateNeverNegative ==
    ParsedText =>
        /\ HasRate(parsedReply) => parsedReply.rateUsd >= 0
        /\ (/\ ~includes(msgText, "$")
            /\ ~IncludesAny(toLowerCase(msgText), CurrencyWords))
              => ~HasRate(parsedReply)
        /\ parsedReply.rateUsd = 0 => includes(msgText, "$0")

\* the amounts read from the modelled fragments, in cents
RatesOfFragments ==
    ParsedText =>
        /\ msgText = "my rate is $900" => parsedReply.rateUsd = 90000
        /\ msgText = "$0" => parsedReply.rateUsd = 0
        /\ msgText = "fee $1234" => parsedReply.rateUsd = 12300
        /\ msgText = "1,500 Dollars" => parsedReply.rateUsd = 50000
        /\ msgText = "in 2026" => ~HasRate(parsedReply)
        /\ msgText = "fee $1234 my rate is $900" => parsedReply.rateUsd = 12300

(***************************************************************************)
(* Liveness of the webhook handler.                                        *)
(***************************************************************************)
\* C33: the webhook handler always eventually responds: a request that is
\* being handled, suspended in the dispatch call or elsewhere, is
\* eventually answered.
C33_AlwaysResponds ==
    \A p \in Procs : (h[p].pc # "idle") ~> (h[p].pc = "idle")

\* a request suspended on a Redis command is eventually past it
RedisStepsEnd ==
    \A p \in Procs :
        (h[p].pc \in {"redis_get", "redis_set"}) ~> (h[p].pc \in {"idle", "fetch"})

\* the handler stays suspended in the dispatch call only
PendingOnlyInFetch ==
    \A p \in Procs : <>[](h[p].pc # "idle") => <>[](h[p].pc = "fetch")

(***************************************************************************)
(* Properties of the daily DM counter.                                     *)
(***************************************************************************)
SentOutreach == entry = "send_outreach" /\ stage = "done"

\* (await ctx.getState("dailyDmCount")) || 0
StoredDmCount == IF dailyDmCount = Undefined THEN 0 ELSE dailyDmCount

\* C34: after a send_outreach call lastDmDate is today and the persisted
\* dailyDmCount is the number of DMs sent on that day, also when the first
\* call of the day sent no DM.
C34_CountIsTodaysDms ==
    SentOutreach => StoredDmCount = dmsSent[lastDmDate]

\* after a send_outreach call lastDmDate is a day of the calendar and the
\* persisted count is at least the DMs sent on that day
CountAtLeastTodaysDms ==
    SentOutreach =>
        /\ lastDmDate \in DOMAIN dmsSent
        /\ StoredDmCount >= dmsSent[lastDmDate]

\* the persisted count is written by a call that sent a DM and by no other:
\* a call that sent none leaves the count of the day before
CountWrittenWithDm ==
    [][SendsOutreach =>
          IF DmsReported(outreachResult') > 0
          THEN dailyDmCount' =
                  DmsReported(outreachResult')
                    + (IF lastDmDate = lastDmDate' THEN StoredDmCount ELSE 0)
          ELSE dailyDmCount' = dailyDmCount]_vars

(***************************************************************************)
(* Redelivery after a failed dispatch.                                     *)
(***************************************************************************)
\* the provider holds a 204 for a verified message.received event that has
\* an id, and no delivery is in progress
Acknowledged ==
    /\ Answered
    /\ Genuine(lastResp.req)
    /\ lastResp.req.event.event_type = "message.received"
    /\ lastResp.req.event.event_id # ""
    /\ lastResp.status = 204
    /\ AllIdle

\* C35: a dispatch failure does not lose the event: a redelivery after
\* failed dispatches is not answered as a duplicate, so that a provider that
\* retries until it gets 204 holds a 204 only for an event that was
\* dispatched successfully.
C35_FailedDispatchRetried ==
    Acknowledged => agentRuns[lastResp.key] >= 1

\* without a store a 204 is held only for an event that was dispatched
\* successfully
AcknowledgedAfterDispatchWithoutStore ==
    (Acknowledged /\ ~redisConfigured) => agentRuns[lastResp.key] >= 1

\* a redelivery answered as a duplicate was preceded by a dispatch of the
\* event, successful or not
DuplicateAfterDispatch ==
    (Acknowledged /\ lastResp.trace[Len(lastResp.trace)] = "duplicate")
        => wakeCalls[lastResp.key] >= 1

(***************************************************************************)
(* A rate sent by e-mail.                                                  *)
(***************************************************************************)
\* agentmail_ingest_event has decided on a parsed reply of intent
\* sends_rate whose rate is within maxUsdPerDeal and that asks neither
\* exclusivity nor whitelisting
SentRateDecided ==
    /\ entry = "agentmail_ingest_event"
    /\ Decided
    /\ parsedReply.intent = "sends_rate"
    /\ HasRate(parsedReply)
    /\ parsedReply.rateUsd > 0
    /\ parsedReply.rateUsd <= activeCampaign.guardrails.maxUsdPerDeal
    /\ ~parsedReply.asksExclusivity
    /\ ~parsedReply.asksWhitelisting

\* C36: under the default escalation config (unclearUsage = true) such a
\* reply reaches rule 7 or 8: the decision is accept or counter.
C36_SentRateResolved ==
    (SentRateDecided /\ activeCampaign.guardrails.escalation.unclearUsage)
        => decision.action \in {"accept", "counter"}

\* with unclearUsage = true such a reply is always answered by rule 6
SentRateClarifiedByRule6 ==
    (SentRateDecided /\ activeCampaign.guardrails.escalation.unclearUsage)
        => /\ parsedReply.usage = NoText
           /\ decision.action = "clarify"
           /\ FiredRule = "usage_unclear"

\* with unclearUsage = false it is accepted or countered
SentRateResolvedWithSwitchOff ==
    (SentRateDecided /\ ~activeCampaign.guardrails.escalation.unclearUsage)
        => decision.action \in {"accept", "counter"}

(***************************************************************************)
(* Interleaved calls for two different leads.                              *)
(***************************************************************************)
\* call p read the lead of call q as it was stored at first or as q wrote it
ReadAsLeftBy(p, q) ==
    runs[p].leadsRead[runs[q].matched].status
        \in {ContactedLeads[runs[q].matched].status, runs[q].lead.status}

\* calls p and q have both decided and written, for two different leads, and
\* no other event of either lead came between them
DecidedForTwoLeads(p, q) ==
    /\ p # q
    /\ runs[p].pc = "decided" /\ runs[q].pc = "decided"
    /\ runs[p].matched # runs[q].matched
    /\ ReadAsLeftBy(p, q) /\ ReadAsLeftBy(q, p)

\* the stored status of the lead of call p is the one p decided
ReflectsOwnDecision(p) ==
    leads[runs[p].matched].status = runs[p].lead.status

\* C37: agentmail_ingest_event calls for events of two different leads do
\* not interfere: after both have completed, under every interleaving, the
\* stored status of each lead reflects the decision taken for its own event.
C37_NoInterference ==
    \A p, q \in Runs :
        DecidedForTwoLeads(p, q)
            => ReflectsOwnDecision(p) /\ ReflectsOwnDecision(q)

\* a call that writes while the store is still as it read it changes its
\* own lead only
WriteKeepsOthersWhenStoreUnchanged ==
    [][\A p \in Runs :
          (Writes(p) /\ runs[p].leadsRead = leads)
             => \A i \in 1..Len(leads) :
                   i # runs[p].matched => leads'[i] = leads[i]]_vars

\* the call that wrote last always finds its own decision stored
LastWriterReflected ==
    \A p \in Runs : lastWriter = p => ReflectsOwnDecision(p)

(***************************************************************************)
(* Successive ingest_replies_x polls.                                      *)
(***************************************************************************)
\* ingest_replies_x has returned and its result is still at hand
Polled == entry = "ingest_replies_x" /\ stage = "done"

\* the replies of a poll are listed newest first for every lead
NewestFirst(res) ==
    \A i \in DOMAIN res :
        \A k \in DOMAIN res[i] : res[i][k] <= res[i][1]

\* C38: after a poll that returned replies for a lead, the stored
\* lastContactAt of that lead is at least the createdAt of every reply
\* returned for it, in whatever order the API listed the events, and the
\* lead's status is replied (so that no event is returned by a second poll)
C38_RepliesCovered ==
    Polled =>
        \A i \in DOMAIN outreachResult :
            outreachResult[i] # << >> =>
                /\ leads[i].status = "replied"
                /\ \A k \in DOMAIN outreachResult[i] :
                       leads[i].lastContactAt >= outreachResult[i][k]

\* a poll never returns an event an earlier poll has returned
EventReturnedOnce ==
    [][Polled' /\ ~Polled => RepliesOf(outreachResult') \cap returned = {}]_vars

\* a lead with replies is marked replied, and its lastContactAt is the
\* createdAt of the first reply listed for it
RepliedAtFirstListed ==
    Polled =>
        \A i \in DOMAIN outreachResult :
            outreachResult[i] # << >> =>
                /\ leads[i].status = "replied"
                /\ leads[i].lastContactAt = outreachResult[i][1]

\* when the API lists the events newest first, the stored lastContactAt
\* covers every reply returned
CoveredWhenNewestFirst ==
    (Polled /\ NewestFirst(outreachResult)) =>
        \A i \in DOMAIN outreachResult :
            \A k \in DOMAIN outreachResult[i] :
                leads[i].lastContactAt >= outreachResult[i][k]

\* a poll listed two new messages of a lead oldest first
OldestFirstPolled ==
    Polled /\ \E i \in DOMAIN outreachResult : outreachResult[i] = <<2, 3>>

(***************************************************************************)
(* What one send_outreach call does to the store.                          *)
(***************************************************************************)
\* the stored lead with that xUserId, in a list with one
StoredLead(ls, id) == ls[CHOOSE i \in 1..Len(ls) : ls[i].xUserId = id]

\* the status send_outreach stores for a channel
SentStatus(channel) ==
    IF channel = "x_dm" THEN "dm_sent"
    ELSE IF channel = "email" THEN "email_sent" ELSE "public_replied"

\* every planned item is reported, in the order of the plan
AllItemsReported(planned, res) ==
    /\ Len(res) = Len(planned)
    /\ \A k \in 1..Len(planned) :
          /\ res[k].leadHandle = planned[k].lead.handle
          /\ res[k].channel = planned[k].channel

\* the lead of a failed or skipped item stays as stored, and the persisted
\* count stays when no DM went through
FailedItemsLeaveStore(planned, res) ==
    /\ \A k \in 1..Len(planned) :
          ~res[k].success =>
              StoredLead(leads', planned[k].lead.xUserId)
                  = StoredLead(leads, planned[k].lead.xUserId)
    /\ (\A k \in 1..Len(planned) :
            ~(res[k].success /\ res[k].channel = "x_dm"))
          => dailyDmCount' = dailyDmCount
    /\ \A i \in 1..Len(leads) :
          (\A k \in 1..Len(planned) :
               planned[k].lead.xUserId # leads[i].xUserId)
             => leads'[i] = leads[i]

\* the lead of a sent item gets the status of the channel
SentItemsGetStatus(planned, res) ==
    \A k \in 1..Len(planned) :
        res[k].success =>
            StoredLead(leads', planned[k].lead.xUserId).status
                = SentStatus(planned[k].channel)

\* the counter of the channel, as stored after the call, is one more than
\* the counter of the lead `before`
CounterGrowsFrom(before(_), planned, res) ==
    \A k \in 1..Len(planned) :
        res[k].success =>
            LET after == StoredLead(leads', planned[k].lead.xUserId)
            IN /\ planned[k].channel = "x_dm"
                    => after.dmCount = before(planned[k]).dmCount + 1
               /\ planned[k].channel = "email"
                    => after.emailCount = before(planned[k]).emailCount + 1

\* the lead as the store holds it when send_outreach is called
AsStored(item) == StoredLead(leads, item.lead.xUserId)

\* the lead as the planned item carries it
AsPlanned(item) == item.lead

\* a property of every send_outreach call of the model
EverySendOutreach(Post(_, _)) ==
    \A planned \in Plans, d \in 1..Len(LeadDays) :
        \A sendOks \in [1..Len(planned) -> BOOLEAN] :
            SendOutreach(planned, LeadDmDailyCap, LeadDays[d], NowOn(d),
                         sendOks)
                => Post(planned, outreachResult')

\* C39: send_outreach changes a stored lead only on a successful send: the
\* stored status becomes that of the channel and the stored counter of the
\* channel grows by exactly one; a failed or skipped item leaves the stored
\* lead and the persisted dailyDmCount as they were and is reported with
\* success = false, and every item of the plan is processed
C39_StoreFollowsSends ==
    [][EverySendOutreach(
         LAMBDA planned, res :
             /\ AllItemsReported(planned, res)
             /\ FailedItemsLeaveStore(planned, res)
             /\ SentItemsGetStatus(planned, res)
             /\ CounterGrowsFrom(AsStored, planned, res))]_vars

\* the same with the counter one more than the planned copy's counter
StoreFollowsPlannedCopies ==
    [][EverySendOutreach(
         LAMBDA planned, res :
             /\ AllItemsReported(planned, res)
             /\ FailedItemsLeaveStore(planned, res)
             /\ SentItemsGetStatus(planned, res)
             /\ CounterGrowsFrom(AsPlanned, planned, res))]_vars

\* an item failed and a later item of the same call was sent
SentAfterFailedItem ==
    /\ entry = "send_outreach" /\ stage = "done"
    /\ Len(outreachResult) = 2
    /\ ~outreachResult[1].success
    /\ outreachResult[2].success

(***************************************************************************)
(* The offer carried by a counter decision.                                *)
(***************************************************************************)
\* decide_next_logic has returned a counter decision
CounterDecided == Decided /\ decision.action = "counter"

\* at least one offer of the campaign's menu has a baseline
MenuHasBaseline ==
    \E k \in 1..Len(activeCampaign.offerMenu) :
        activeCampaign.offerMenu[k].baselineUsd # Undefined

\* the counter-offer names a positive rate, the one the reply draft proposes
UsableOffer(d) ==
    /\ d.counterOffer.rateUsd # Undefined
    /\ d.counterOffer.rateUsd > 0
    /\ d.replyDraft.rate = d.counterOffer.rateUsd

\* C40: whenever decide_next_logic returns action counter, the counter-offer's
\* rateUsd is defined, strictly positive and equal to the amount proposed in
\* the reply draft, for every offer menu the schema accepts, also a menu in
\* which no offer has a baseline
C40_CounterCarriesRate == CounterDecided => UsableOffer(decision)

\* the same for the menus in which at least one offer has a baseline
CounterCarriesRateWhenBaselined ==
    (CounterDecided /\ MenuHasBaseline) => UsableOffer(decision)

\* without a baseline in the menu the counter-offer has no rate and the
\* draft proposes $0
CounterWithoutBaseline ==
    (CounterDecided /\ ~MenuHasBaseline) =>
        /\ decision.counterOffer.rateUsd = Undefined
        /\ decision.replyDraft.rate = 0

====
